---- MODULE Spec2Model ----
(***************************************************************************)
(* A model of pv (pipe viewer): the main transfer loop pv_main_loop        *)
(* (src/pv/loop.c), the transfer engine pv_transfer it calls, the rate     *)
(* calculator (src/pv/calc.c) and the display formatter pv_format          *)
(* (src/pv/display.c).                                                     *)
(*                                                                         *)
(* The steps of pv_transfer (the Xfer actions) follow section 4.4 of the   *)
(* specification of the transfer engine.                                   *)
(***************************************************************************)
EXTENDS Integers, Sequences, FiniteSets, TLC

(***************************************************************************)
(* Bounds of the model.                                                    *)
(***************************************************************************)
MaxFiles == 2         \* input files in the list
MaxFileLen == 2       \* bytes per input file
MaxBuf == 1           \* largest explicit target_buffer_size
MaxSize == 2          \* largest configured size (-s)
MaxClock == 3         \* the clock stops advancing after MaxClock * RATE_GRANULARITY
MaxRemote == 1        \* remote-control messages received in one run
MaxPos == 2           \* largest offset of a watched file descriptor
MaxCalls == 3         \* calls of pv_calculate_transfer_rate in one run
MaxTotal == 2         \* largest ordinary total_written given to the calculator
MaxWindow == 2        \* largest average rate window (-m), in seconds
MaxWidth == 30        \* widest terminal
MaxFrames == 2        \* display ticks in one run of the formatter
MaxLinePositions == 2 \* entries of the ring of line separator positions
MaxSeconds == 4       \* the clock stops advancing at MaxSeconds seconds
MaxStops == 2         \* SIGTSTP signals in one run
MaxConts == 3         \* SIGCONT signals in one run
MaxInstances == 2     \* instances of pv -c on one terminal
MaxResumes == 2       \* SIGCONT signals to the instances of pv -c
MaxResets == 1        \* times another program clears TOSTOP
MaxReformats == 2     \* times one message of pv -R is sent between two frames
MaxWinch == 2         \* SIGWINCH signals in one run
MaxErrors == 22       \* failed reads in a row
MaxSweeps == 101      \* display ticks of the transfer of unknown size
MaxFormatLen == 3     \* longest format string given to the parser on its own
MaxBeyond == 2        \* bytes followed behind the terminator of the format string
MaxLooks == 4         \* looks of pv_watchfd_loop at the position that succeed
MaxShown == 3         \* descriptors of the watched process that can be displayed
MaxTimeout == 40000   \* microseconds pv -R waits for its message to be taken
MaxForeign == 2       \* bytes of another writer waiting in the output pipe
MaxFd == 4            \* largest file descriptor followed
MaxChecks == 2        \* calls of pv_sig_checkbg in one run
MaxDeliveries == 2    \* deliveries of SIGTTOU, and of SIGCONT, in one run
MaxOks == 2           \* successful reads in a run of the read error skipping

(***************************************************************************)
(* Program constants.                                                      *)
(***************************************************************************)
RATE_GRANULARITY == 100000000
RATE_BURST_WINDOW == 5
BUFFER_SIZE == 409600
BUFFER_SIZE_MAX == 524288
NSEC_PER_SEC == 1000000000
PV_ERROREXIT_ACCESS == 2
PV_ERROREXIT_SAMEFILE == 4
PV_ERROREXIT_CLOSE == 8
PV_ERROREXIT_SIGNAL == 32
USEC_PER_SEC == 1000000
PERCENTAGE_MAX == 100000
PV_FORMAT_ARRAY_MAX == 100
SIZEOF_DISPLAY_SEGMENTS == 1024
SIZEOF_CONTENT == 1024
PVDISPLAY_WIDTH_MAX == 40
PV_SIZEOF_PREVLINE_BUFFER == 1024
SECONDS_PER_DAY == 86400
ETA_MAX == 360000000
SIZE_T_RANGE == 1073741824

\* Refills per second: 1000000000.0 / RATE_GRANULARITY (loop.c:233).  The
\* accumulator "target" is kept multiplied by this number, so that the
\* fractional tokens of the long double are exact integers here.
RefillDivisor == NSEC_PER_SEC \div RATE_GRANULARITY

Min(a, b) == IF a < b THEN a ELSE b

\* (off_t) x for a long double x = n / RefillDivisor: truncation towards zero.
TruncDiv(n, d) == IF n >= 0 THEN n \div d ELSE -((-n) \div d)

(***************************************************************************)
(* Inputs.  The j-th byte of the i-th file is the pair <<i, j>>, so every  *)
(* byte of the input is distinct; every second byte of a file is a line    *)
(* separator.                                                              *)
(***************************************************************************)
FileBytes(i, n) == [j \in 1..n |-> <<i, j>>]

IsSeparator(b) == b[2] % 2 = 0

RECURSIVE CountSeparators(_)
CountSeparators(s) ==
    IF s = <<>> THEN 0
    ELSE (IF IsSeparator(Head(s)) THEN 1 ELSE 0) + CountSeparators(Tail(s))

FileLists == UNION {[1..n -> 0..MaxFileLen] : n \in 0..MaxFiles}

RateLimits == {0, 5, 20}

VARIABLES
    \* position in pv_main_loop / pv_transfer
    pc,
    \* state->files and the input side
    files, file_idx, input_fd, in_pos, opened,
    \* state->control
    rate_limit, size, stop_at_size, linemode, no_splice, target_buffer_size,
    no_display, show_stats, wait, delay_start_small,
    \* locals of pv_main_loop
    eof_in, eof_out, final_update, cansend, written, lineswritten, target,
    cur_time, next_ratecheck, output_is_pipe,
    \* state->transfer
    buffer_size, read_position, write_position, transfer_buffer,
    total_written, written_but_not_consumed,
    splice_used, splice_failed_fd,
    \* state->transfer: what the receiver has consumed, and the ring of line
    \* separator positions
    transferred, line_positions, line_positions_length, line_positions_head,
    last_output_position,
    \* state->flags, state->status, state->display
    trigger_exit, pipe_closed, exit_status, output_produced,
    \* the environment: the output sink, the pipe's kernel buffer, -R messages
    output, pipe_fill, reader_closed, remote_left,
    \* pv_watchfd_loop: the offset of the watched descriptor and the loop's locals
    position, ended, first_check, initial_offset,
    \* state->calc, state->transfer.elapsed_seconds, state->control.bits
    calc, elapsed_seconds, bits,
    \* state->display, state->control.width, .format_string and .name,
    \* state->flag.reparse_display
    display, width, format_string, name, reparse_display,
    \* the value the loop returns; pv_watchpid_loop's local first_pass
    retval, first_pass,
    \* the monotonic clock; start_time, cur_time and init_time of the display
    \* part of pv_main_loop; state->signal.tstp_time and .toffset; whether the
    \* process is stopped
    clock, start_time, loop_cur_time, init_time, tstp_time, toffset, stopped,
    \* pv -c: each instance's position, pv_tty_tostop_added and crs_pvcount,
    \* whether it is attached to the shared segment; the segment, the holder
    \* of the lock file's lock, and the terminal's TOSTOP attribute
    crs_pc, pv_tty_tostop_added, crs_pvcount, crs_attached, crs_shared, crs_lock, tostop,
    \* state->flags.terminal_resized, the terminal's width in columns,
    \* state->control.width_set_manually, pv_main_loop's local new_width
    terminal_resized, terminal_width, width_set_manually, new_width,
    \* state->control.skip_errors and .error_skip_block; state->transfer's
    \* read_errors_in_a_row, last_read_skip_fd and read_error_warning_shown
    skip_errors, error_skip_block, read_errors_in_a_row, last_read_skip_fd,
    read_error_warning_shown,
    \* pv_main_loop's local next_update; whether pv_sig_tstp and pv_sig_cont
    \* are the handlers of SIGTSTP and SIGCONT
    next_update, tstp_caught, cont_caught,
    \* what each file descriptor of the process refers to;
    \* state->signal.old_stderr; the signal handlers that are running, the
    \* interrupted ones first
    fdtab, old_stderr, sigstack,
    \* the bytes of memory behind the terminator of the format string; pv__format_init's local strpos
    beyond, scan,
    \* state->control.height and .height_set_manually; the terminal's height in rows
    height, height_set_manually, terminal_height,
    \* pv_watchpid_loop's local prev_displayed_lines; the terminal's cursor, in lines below the first display line; state->control.numeric
    prev_displayed_lines, cursor_line, numeric,
    \* remote control: the user's message queue, the pv -R processes, each running pv's queue id, the pv processes running
    msgq, senders, remote__msgid, running,
    \* history of the run, for stating the properties
    hist

ctlVars == <<rate_limit, size, stop_at_size, linemode, no_splice, target_buffer_size,
             no_display, show_stats, wait, delay_start_small>>
fileVars == <<files, file_idx, input_fd, in_pos, opened>>
loopVars == <<eof_in, eof_out, final_update, cansend, written, lineswritten, target,
              cur_time, next_ratecheck, output_is_pipe>>
xferVars == <<buffer_size, read_position, write_position, transfer_buffer,
              total_written, written_but_not_consumed,
              splice_used, splice_failed_fd>>
flagVars == <<trigger_exit, pipe_closed, exit_status, output_produced>>
envVars == <<output, pipe_fill, reader_closed, remote_left>>

watchVars == <<position, ended, first_check, initial_offset>>
calcVars == <<calc, elapsed_seconds, bits>>
fmtVars == <<display, width, format_string, name, reparse_display>>
dispVars == <<calcVars, fmtVars>>
pidVars == <<retval, first_pass>>
sigVars == <<clock, start_time, loop_cur_time, init_time, tstp_time, toffset, stopped>>
crsVars == <<crs_pc, pv_tty_tostop_added, crs_pvcount, crs_attached, crs_shared, crs_lock,
            tostop>>
posVars == <<transferred, line_positions, line_positions_length, line_positions_head,
             last_output_position>>

winVars == <<terminal_resized, terminal_width, width_set_manually, new_width>>
skipVars == <<skip_errors, error_skip_block, read_errors_in_a_row, last_read_skip_fd,
              read_error_warning_shown>>

waitVars == <<next_update, tstp_caught, cont_caught>>
errVars == <<fdtab, old_stderr, sigstack>>
parseVars == <<beyond, scan>>
rowVars == <<height, height_set_manually, terminal_height>>
lineVars == <<prev_displayed_lines, cursor_line, numeric>>
remoteVars == <<msgq, senders, remote__msgid, running>>
extVars == <<waitVars, errVars, parseVars, rowVars, lineVars, remoteVars>>

vars == <<pc, fileVars, ctlVars, loopVars, xferVars, flagVars, envVars, watchVars,
          dispVars, posVars, pidVars, sigVars, crsVars, winVars, skipVars, extVars,
          hist>>


(***************************************************************************)
(* Remote control messages (pv -R): the fields pv_remote_check copies when *)
(* they are nonzero.                                                       *)
(***************************************************************************)
NoMsg == [rate_limit |-> 0, buffer_size |-> 0, size |-> 0]

RemoteMsgs ==
    {[rate_limit |-> 1, buffer_size |-> 0, size |-> 0],
     [rate_limit |-> 0, buffer_size |-> MaxBuf + 1, size |-> 1]}

\* pv_remote_check: a field of the message replaces the option when it is > 0.
RemoteApply(old, new) == IF new > 0 THEN new ELSE old

\* pv_elapsedtime_read: the monotonic clock, at or after the last reading.
ClockReads(now) ==
    {t \in {now, now + RATE_GRANULARITY} : t <= MaxClock * RATE_GRANULARITY}

\* pv_next_file(state, filenum, oldfd): the new descriptor, or -1 with a bit
\* added to exit_status: 8 when the old descriptor cannot be closed (the new
\* file is then not opened), 2 when the file cannot be opened or stat-ed, 4
\* when it is the output file.  The descriptor of file number n is modelled
\* as n + 1.
NextFileOutcomes(filenum, oldfd) ==
    {[fd |-> filenum + 1, bits |-> {}]}
    \cup {[fd |-> -1, bits |-> {b}] :
            b \in {PV_ERROREXIT_ACCESS, PV_ERROREXIT_SAMEFILE}
                  \cup (IF oldfd > 0 THEN {PV_ERROREXIT_CLOSE} ELSE {})}

\* Whether that call of pv_next_file got as far as open(): it returns before
\* it when closing the old descriptor fails.
OpenReached(r) == PV_ERROREXIT_CLOSE \notin r.bits

file_count == Len(files)

\* The bytes of the open input file that have not been read yet.
InputRemaining == IF input_fd > 0 THEN files[input_fd] - in_pos ELSE 0

InitHist ==
    [final_frames |-> 0, xfer_after_final |-> FALSE, final_tick_ok |-> TRUE,
     sent_bytes |-> 0, sent_lines |-> 0,
     write_error |-> FALSE,
     refilled |-> 0, sent_limited |-> 0,
     calls |-> 0, reformats |-> 0,
     recorded |-> {}, indexes_read |-> {},
     tick_after_signal |-> FALSE, xfer_after_signal |-> FALSE, signal_frames |-> 0,
     broke |-> FALSE,
     toffsets |-> {[tv_sec |-> 0, tv_nsec |-> 0]},
     toffset_read |-> [tv_sec |-> 0, tv_nsec |-> 0],
     stopped_total |-> 0, stopped_at_read |-> 0, stops |-> 0, conts |-> 0,
     frames |-> 0,
     unlocked_write |-> FALSE, cleared_while_running |-> FALSE,
     tostop_set |-> FALSE, last_foreground |-> FALSE,
     resumes |-> 0, resets |-> 0,
     remote_msg |-> [progress |-> FALSE, timer |-> FALSE, eta |-> FALSE, name |-> <<>>,
                     format |-> <<>>, size |-> 0],
     remote_at |-> 0, replaced_format |-> <<>>,
     next_file_calls |-> <<>>, open_calls |-> <<>>,
     compiled |-> <<>>, reparse_requests |-> 0, recompiled |-> 0,
     winches |-> 0, winch_since_frame |-> FALSE, width_stale |-> FALSE,
     tested_since_winch |-> TRUE,
     empty_at_start |-> FALSE, splice_failed_fds |-> {},
     oks |-> 0, streak |-> 0, last_skip |-> 0, warned |-> <<>>, skipped |-> FALSE,
     call_at |-> 0, measured_at |-> 0, carried |-> 0,
     wrote |-> FALSE, clearing |-> FALSE, frame_while_clearing |-> FALSE,
     checks |-> 0, delivered |-> [handler \in {"ttou", "cont"} |-> 0],
     interrupted |-> FALSE, closed_twice |-> FALSE, resaved |-> FALSE,
     first_frame_at |-> [tv_sec |-> 0, tv_nsec |-> 0],
     \* pv__format_init: where each pass of its loop started and ended, and
     \* the highest index of display_format that was read
     passes |-> <<>>, read_upto |-> 0,
     \* pv_format: the calls of the components' functions in the last frame,
     \* and what the bytes of its stack that were not set held
     format_calls |-> <<>>, stack_byte |-> "",
     \* pv_watchfd_loop: the looks at the position that succeeded and that
     \* failed, the first and the last position read, how often
     \* initial_offset was set, the frames, the final ones among them, and the
     \* last frame
     fd_reads |-> 0, fd_failed |-> 0, fd_first_read |-> 0, fd_last_read |-> 0,
     fd_offset_sets |-> 0, fd_frames |-> 0, fd_final_frames |-> 0,
     fd_last_frame |-> [final |-> FALSE, transferred |-> 0],
     \* pv_watchpid_loop: whether a tick, or more than one, has displayed;
     \* the descriptors shown by the last tick, the lines of the tick before
     \* it, what the last tick or the clean-up wrote, and whether the
     \* clean-up has run
     pid_ticks |-> 0, pid_shown |-> 0, pid_previous |-> 0, pid_out |-> <<>>,
     pid_cleaned |-> FALSE]

\* state->calc as pv_state_alloc and pv_state_average_rate_window_set leave
\* it: everything zero, a history ring of len entries.  Times are in
\* microseconds, rates in bytes per second.
InitialCalc(len) ==
    [transfer_rate |-> 0, average_rate |-> 0,
     prev_elapsed_sec |-> 0, prev_rate |-> 0, prev_trans |-> 0,
     current_avg_rate |-> 0,
     rate_min |-> 0, rate_max |-> 0, rate_sum |-> 0, ratesquared_sum |-> 0,
     measurements_taken |-> 0,
     history |-> [i \in 0..(len - 1) |-> [elapsed_sec |-> 0, total_written |-> 0]],
     history_len |-> len, history_first |-> 0, history_last |-> 0,
     prev_total_written |-> 0,
     percentage |-> 0]

\* state->display before the first pv_format: no format compiled, nothing
\* rendered.
InitialDisplay ==
    [format |-> <<>>, format_segment_count |-> 0,
     display_buffer |-> <<>>, display_buffer_size |-> 0,
     display_string_bytes |-> 0, display_string_width |-> 0,
     prev_screen_width |-> 0, showing_timer |-> FALSE]

\* The formatter has not been called.
FormatIdle ==
    /\ display = InitialDisplay /\ width = 0
    /\ format_string = <<>> /\ name = <<>> /\ reparse_display = 1

\* Neither the rate calculator nor the formatter is under study.
DisplayIdle ==
    /\ calc = InitialCalc(1) /\ elapsed_seconds = 0 /\ bits = FALSE
    /\ FormatIdle

\* pv_elapsedtime_zero: a struct timespec of zero.
ZeroTime == [tv_sec |-> 0, tv_nsec |-> 0]

\* No SIGTSTP or SIGCONT is under study: the clock is not looked at.
SignalIdle ==
    /\ clock = ZeroTime /\ start_time = ZeroTime /\ loop_cur_time = ZeroTime
    /\ init_time = ZeroTime /\ tstp_time = ZeroTime /\ toffset = ZeroTime
    /\ stopped = FALSE

\* -W is not studied in steps: next_update is not looked at and the handlers
\* of SIGTSTP and SIGCONT stay installed (signal.c:202-215).
WaitIdle == next_update = ZeroTime /\ tstp_caught = TRUE /\ cont_caught = TRUE

\* SIGTTOU is not studied: no descriptor is followed and none is saved.
ErrIdle == fdtab = <<>> /\ old_stderr = -1 /\ sigstack = <<>>

\* The parser of the format string is not studied on its own.
ParseIdle == beyond = <<>> /\ scan = 0

\* The height of the display is not studied.
RowIdle == height = 0 /\ height_set_manually = FALSE /\ terminal_height = 0

\* The lines of pv_watchpid_loop are not studied.
LineIdle == prev_displayed_lines = 0 /\ cursor_line = 0 /\ numeric = FALSE

\* No message queue and no process of remote control.
RemoteIdle == msgq = [exists |-> FALSE, id |-> 0, msgs |-> <<>>] /\ senders = <<>> /\ remote__msgid = <<>> /\ running = {}

\* The parts of the program that are studied on their own are at rest.
ExtIdle == WaitIdle /\ ErrIdle /\ ParseIdle /\ RowIdle /\ LineIdle /\ RemoteIdle

\* No resize signal is studied: the flag is clear and the width is fixed.
ResizeIdle ==
    /\ terminal_resized = 0 /\ terminal_width = 0 /\ width_set_manually = TRUE
    /\ new_width = 0

\* No read error is studied: pv_state_alloc's zeroed fields, skip_errors off.
SkipIdle ==
    /\ skip_errors = 0 /\ error_skip_block = 0
    /\ read_errors_in_a_row = 0 /\ last_read_skip_fd = 0
    /\ read_error_warning_shown = FALSE

\* The instances of pv -c, and the segment as shmget creates it: zeroed.
Instances == 1 .. MaxInstances
NewSegment == [y_topmost |-> 0, tty_tostop_added |-> FALSE]

\* No instance of pv -c has been started: state.c:71-74.
CursorFresh ==
    /\ crs_pc = [i \in Instances |-> "start"]
    /\ pv_tty_tostop_added = [i \in Instances |-> FALSE]
    /\ crs_pvcount = [i \in Instances |-> 1]
    /\ crs_attached = [i \in Instances |-> FALSE]
    /\ crs_shared = NewSegment
    /\ crs_lock = 0

\* The cursor coordination when the run is not about it.
CursorIdle == CursorFresh /\ tostop = FALSE

\* The options on top of the transfer options (input files, rate limit,
\* line mode, splice, buffer size) that a run has switched on: stopping at
\* size, a pipe as output, a display or statistics, a remote-control message
\* under way.  The runs explored are every choice of the transfer options
\* alone; stopping at size or a remote message with every explicit buffer of
\* MaxBuf; and a pipe, a display, or both, without a rate limit.
ExtraOptions ==
    (IF stop_at_size THEN 1 ELSE 0) + (IF output_is_pipe THEN 1 ELSE 0)
    + (IF no_display /\ ~show_stats THEN 0 ELSE 1) + (IF remote_left > 0 THEN 1 ELSE 0)

\* No watched descriptor: pv is piping.
WatchIdle == position = 0 /\ ended = FALSE /\ first_check = TRUE /\ initial_offset = 0

\* state->transfer.line_positions_capacity: MAX_LINE_POSITIONS in the program.
line_positions_capacity == MaxLinePositions

\* state->transfer.line_positions: NULL outside line mode, an array of
\* line_positions_capacity zeroes in line mode.
NoLinePositions == <<>>

EmptyLinePositions == [i \in 0..(line_positions_capacity - 1) |-> 0]

\* pv_main_loop is entered: the state after lines 86-152.
\* The record of a call pv_next_file(state, filenum, oldfd) with outcome r:
\* the file numbers passed, and those whose open() was reached.
NextFileHist(filenum, r) ==
    [hist EXCEPT !.next_file_calls = Append(@, filenum),
                 !.open_calls = IF OpenReached(r) THEN Append(@, filenum) ELSE @]

\* The state on entry but for the bytes waiting in the output pipe.
MainLoopEntered ==
    /\ pc = "open"
    /\ WatchIdle /\ ResizeIdle /\ SkipIdle /\ ExtIdle /\ DisplayIdle
    /\ files \in FileLists
    /\ file_idx = 0 /\ input_fd = -1 /\ in_pos = 0 /\ opened = <<>>
    /\ rate_limit \in RateLimits
    /\ stop_at_size \in BOOLEAN
    /\ size \in (IF stop_at_size THEN 1..MaxSize ELSE {0})
    /\ linemode \in BOOLEAN
    /\ no_splice \in (IF linemode THEN {FALSE} ELSE BOOLEAN)
    /\ target_buffer_size \in 0..MaxBuf
    /\ no_display \in BOOLEAN
    /\ show_stats \in (IF no_display THEN BOOLEAN ELSE {FALSE})
    /\ wait \in (IF no_display THEN {FALSE} ELSE BOOLEAN)
    /\ delay_start_small \in (IF no_display \/ wait THEN {TRUE} ELSE BOOLEAN)
    /\ eof_in = FALSE /\ eof_out = FALSE /\ final_update = FALSE
    /\ cansend = 0 /\ written = 0 /\ lineswritten = 0 /\ target = 0
    /\ cur_time = 0 /\ next_ratecheck = 0
    /\ output_is_pipe \in BOOLEAN
    /\ buffer_size = 0 /\ read_position = 0 /\ write_position = 0
    /\ transfer_buffer = <<>>
    /\ total_written = 0 /\ written_but_not_consumed = 0
    /\ splice_used = FALSE /\ splice_failed_fd = -1
    /\ transferred = 0
    /\ line_positions = (IF linemode THEN EmptyLinePositions ELSE NoLinePositions)
    /\ line_positions_length = 0 /\ line_positions_head = 0
    /\ last_output_position = 0
    /\ trigger_exit = 0 /\ pipe_closed = 0 /\ exit_status = {}
    /\ output_produced = FALSE
    /\ output = <<>> /\ reader_closed = FALSE
    /\ remote_left \in {0, MaxRemote}
    /\ retval = {} /\ first_pass = TRUE
    /\ SignalIdle /\ CursorIdle
    /\ hist = InitHist
    /\ \/ ExtraOptions = 0
       \/ /\ ExtraOptions = 1 /\ (stop_at_size \/ remote_left > 0)
          /\ target_buffer_size = MaxBuf
       \/ /\ ~stop_at_size /\ remote_left = 0 /\ rate_limit = 0
          /\ (ExtraOptions = 1 \/ target_buffer_size = MaxBuf)

\* pv_main_loop is entered with nothing in the output pipe.
InitMainLoop == MainLoopEntered /\ pipe_fill = 0

(***************************************************************************)
(* pv_main_loop, lines 154-207: open the first readable input file.        *)
(***************************************************************************)
OpenFirst ==
    /\ pc = "open"
    /\ input_fd < 0 /\ file_idx < file_count
    /\ \E r \in NextFileOutcomes(file_idx, -1) :
        /\ input_fd' = r.fd
        /\ exit_status' = exit_status \cup r.bits
        /\ file_idx' = IF r.fd < 0 THEN file_idx + 1 ELSE file_idx
        /\ opened' = IF r.fd < 0 THEN opened ELSE Append(opened, r.fd)
        /\ hist' = NextFileHist(file_idx, r)
    /\ UNCHANGED <<extVars, winVars, skipVars, dispVars, sigVars, crsVars, pidVars, posVars, watchVars,
                   pc, files, in_pos, ctlVars, loopVars, xferVars, trigger_exit,
                   pipe_closed, output_produced, envVars>>

\* Lines 167-171: no readable input file, return at once.
NoInput ==
    /\ pc = "open"
    /\ input_fd < 0 /\ file_idx >= file_count
    /\ pc' = "done"
    /\ retval' = exit_status
    /\ UNCHANGED <<extVars, winVars, skipVars, dispVars, sigVars, crsVars, first_pass, posVars, watchVars,
                   fileVars, ctlVars, loopVars, xferVars, flagVars, envVars, hist>>

\* Lines 187-207: the default target buffer size, from the block size of the
\* first file (at most BUFFER_SIZE_MAX) or BUFFER_SIZE.
LoopEnter ==
    /\ pc = "open"
    /\ input_fd >= 0
    /\ target_buffer_size' \in
         IF target_buffer_size = 0 THEN {BUFFER_SIZE_MAX, BUFFER_SIZE}
         ELSE {target_buffer_size}
    /\ pc' = "top"
    /\ UNCHANGED <<extVars, winVars, skipVars, dispVars, sigVars, crsVars, pidVars, posVars, watchVars,
                   fileVars, rate_limit, size, stop_at_size, linemode, no_splice,
                   no_display, show_stats, wait, delay_start_small,
                   loopVars, xferVars, flagVars, envVars, hist>>

(***************************************************************************)
(* pv_main_loop, lines 214-267: the top of one tick.                       *)
(***************************************************************************)

\* Line 214: the loop goes on until both EOF flags and final_update are set.
LoopCondition == (~(eof_in /\ eof_out)) \/ (~final_update)

\* A token bucket whose budget is the accumulator rounded up.
RateRefillRoundedUp(rl, t) ==
    IF rl > 0 THEN
        IF t > next_ratecheck THEN
            LET added == target + rl
                burst_max == rl * RATE_BURST_WINDOW * RefillDivisor
                capped == IF added > burst_max THEN burst_max ELSE added
            IN  <<capped, next_ratecheck + RATE_GRANULARITY,
                  TruncDiv(capped + RefillDivisor - 1, RefillDivisor)>>
        ELSE <<target, next_ratecheck, TruncDiv(target + RefillDivisor - 1, RefillDivisor)>>
    ELSE <<target, next_ratecheck, 0>>

\* Lines 229-243: the token bucket.  Given the rate limit rl and the clock
\* reading t, the new <<target, next_ratecheck, cansend>>.
RateRefill(rl, t) ==
    IF rl > 0 THEN
        IF t > next_ratecheck THEN
            LET added == target + rl
                burst_max == rl * RATE_BURST_WINDOW * RefillDivisor
                capped == IF added > burst_max THEN burst_max ELSE added
            IN  <<capped, next_ratecheck + RATE_GRANULARITY, TruncDiv(capped, RefillDivisor)>>
        ELSE <<target, next_ratecheck, TruncDiv(target, RefillDivisor)>>
    ELSE <<target, next_ratecheck, 0>>

\* A clamp that forgets to ask for stop_at_size.
StopClampsAnySize(sz, rl, cs) ==
    /\ 0 < sz
    /\ (sz < total_written + cs) \/ (0 = cs /\ 0 = rl)

\* Lines 249-253: whether cansend is replaced by what is left of size.
StopClamps(sz, rl, cs) ==
    /\ 0 < sz /\ stop_at_size
    /\ (sz < total_written + cs) \/ (0 = cs /\ 0 = rl)

\* Lines 249-260: the budget after the stop_at_size clamp.
StopClamp(sz, rl, cs) == IF StopClamps(sz, rl, cs) THEN sz - total_written ELSE cs

\* Lines 262-263: whether the tick does without pv_transfer.
SkipTransfer(sz, cs, ein, eout) ==
    (0 < sz) /\ stop_at_size /\ (0 >= cs) /\ ein /\ eout

\* A loop that does not look at trigger_exit.
ExitNeverTriggered == FALSE

\* Line 226: the flag that SIGINT, SIGHUP and SIGTERM set.
ExitTriggered == 1 = trigger_exit

LoopEnd ==
    /\ pc = "top"
    /\ ~LoopCondition
    /\ pc' = "exit"
    /\ UNCHANGED <<extVars, winVars, skipVars, dispVars, sigVars, crsVars, pidVars, posVars, watchVars,
                   fileVars, ctlVars, loopVars, xferVars, flagVars, envVars, hist>>

LoopTop ==
    /\ pc = "top"
    /\ LoopCondition
    /\ \E msg \in {NoMsg} \cup (IF remote_left > 0 THEN RemoteMsgs ELSE {}),
          t \in ClockReads(cur_time) :
        LET rl == RemoteApply(rate_limit, msg.rate_limit)
            sz == RemoteApply(size, msg.size)
            tbs == RemoteApply(target_buffer_size, msg.buffer_size)
            now == IF rl > 0 THEN t ELSE cur_time
            rr == RateRefill(rl, now)
            refill == rl > 0 /\ now > next_ratecheck
            cs == StopClamp(sz, rl, rr[3])
            stop == StopClamps(sz, rl, rr[3]) /\ 0 >= cs
            ein == IF stop THEN TRUE ELSE eof_in
            eout == IF stop THEN TRUE ELSE eof_out
        IN  \* lines 221-224: pv_remote_check
            /\ rate_limit' = rl /\ size' = sz /\ target_buffer_size' = tbs
            /\ remote_left' = IF msg = NoMsg THEN remote_left ELSE remote_left - 1
            /\ IF ExitTriggered THEN
                   \* lines 226-227
                   /\ pc' = "exit"
                   /\ cansend' = 0
                   /\ hist' = [hist EXCEPT !.broke = TRUE]
                   /\ UNCHANGED <<extVars, winVars, skipVars, eof_in, eof_out, written, target, cur_time,
                                  next_ratecheck>>
               ELSE
                   /\ cur_time' = now
                   /\ target' = rr[1]
                   /\ next_ratecheck' = rr[2]
                   /\ cansend' = cs
                   /\ eof_in' = ein /\ eof_out' = eout
                   /\ IF SkipTransfer(sz, cs, ein, eout)
                      THEN pc' = "account" /\ written' = 0
                      ELSE pc' = "grow" /\ UNCHANGED written
                   /\ hist' = [hist EXCEPT
                        !.sent_bytes = 0,
                        !.sent_lines = 0,
                        !.tick_after_signal = @ \/ (trigger_exit = 1),
                        !.refilled = IF refill THEN @ + rl ELSE @,
                        !.xfer_after_final =
                            @ \/ (hist.final_frames > 0 /\ ~SkipTransfer(sz, cs, ein, eout))]
    /\ UNCHANGED <<extVars, winVars, skipVars, dispVars, sigVars, crsVars, pidVars, posVars, watchVars,
                   fileVars, stop_at_size, linemode, no_splice, no_display, show_stats,
                   wait, delay_start_small, final_update, lineswritten, output_is_pipe,
                   xferVars, flagVars, output, pipe_fill, reader_closed>>

(***************************************************************************)
(* pv_transfer(state, input_fd, &eof_in, &eof_out, cansend, &lineswritten) *)
(* in four steps: buffer growth, read phase, write phase, buffer collapse  *)
(* and EOF closure.  "written" holds the return value as it builds up.     *)
(***************************************************************************)

\* The budget binds whenever a rate limit is set or a positive allowance is
\* passed; with no rate limit, cansend = 0 means "unlimited".
Limited == rate_limit > 0 \/ cansend > 0

\* How many of n bytes the budget lets through, given what the call has
\* already sent.
Allowed(n) ==
    IF Limited
    THEN (IF cansend - written < 0 THEN 0 ELSE Min(n, cansend - written))
    ELSE n

\* The next n unread bytes of the open input file.
InputBytes(n) == [j \in 1..n |-> <<input_fd, in_pos + j>>]

\* The bytes of the buffer between write_position and read_position.
Pending == SubSeq(transfer_buffer, write_position + 1, read_position)

\* A read that takes the whole buffer for free, forgetting what it holds.
ReadSpaceWholeBuffer == buffer_size

\* The room left in the buffer for the read phase.
ReadSpace == buffer_size - read_position

\* A splice that does not wait for the buffer to be empty.
SpliceEligibleWhilePending ==
    /\ ~linemode /\ ~no_splice
    /\ splice_failed_fd # input_fd

\* Whether the read phase may use splice(2).
SpliceEligible ==
    /\ ~linemode /\ ~no_splice
    /\ splice_failed_fd # input_fd
    /\ read_position = write_position

\* The ring of line separator positions with what goes with it:
\* line_positions, line_positions_length, line_positions_head, and the slots
\* of the array that have been written.
Ring ==
    [line_positions |-> line_positions,
     line_positions_length |-> line_positions_length,
     line_positions_head |-> line_positions_head,
     recorded |-> hist.recorded]

\* The write position of a line separator goes into the slot at the head;
\* the head moves on, wrapping at the capacity, and the length grows up to
\* the capacity, so that the oldest position is dropped from then on.
RecordLine(r, separator_position) ==
    [line_positions |-> [r.line_positions EXCEPT ![r.line_positions_head] = separator_position],
     line_positions_length |-> Min(r.line_positions_length + 1, line_positions_capacity),
     line_positions_head |-> (r.line_positions_head + 1) % line_positions_capacity,
     recorded |-> r.recorded \cup {r.line_positions_head}]

\* The line separators among the bytes sent, from byte i on, are recorded
\* with their positions in the output: the i-th byte sent ends at
\* last_output_position + i.
RECURSIVE RecordLines(_, _, _)
RecordLines(r, sent, i) ==
    IF i > Len(sent) THEN r
    ELSE IF IsSeparator(sent[i]) /\ r.line_positions # NoLinePositions
         THEN RecordLines(RecordLine(r, last_output_position + i), sent, i + 1)
         ELSE RecordLines(r, sent, i + 1)

XferGrow ==
    /\ pc = "grow"
    /\ written' = 0 /\ lineswritten' = 0
    /\ splice_used' = FALSE
    /\ buffer_size' = IF buffer_size < target_buffer_size
                      THEN target_buffer_size ELSE buffer_size
    /\ pc' = "read"
    /\ UNCHANGED <<extVars, winVars, skipVars, dispVars, sigVars, crsVars, pidVars, posVars, watchVars,
                   fileVars, ctlVars, eof_in, eof_out, final_update, cansend, target,
                   cur_time, next_ratecheck, output_is_pipe, read_position,
                   write_position, transfer_buffer, total_written,
                   written_but_not_consumed, splice_failed_fd, flagVars, envVars>>
    /\ hist' = [hist EXCEPT !.empty_at_start = (read_position = write_position)]

\* Read phase, nothing to do: eof_in already set, or the buffer is full and
\* splice is not available.
XferReadNone ==
    /\ pc = "read"
    /\ eof_in \/ (~SpliceEligible /\ ReadSpace = 0)
    /\ pc' = "write"
    /\ UNCHANGED <<extVars, winVars, skipVars, dispVars, sigVars, crsVars, pidVars, posVars, watchVars,
                   fileVars, ctlVars, loopVars, xferVars, flagVars, envVars, hist>>

\* Read phase, splice succeeds: n bytes go straight from the input to the
\* output; a return of 0 at the end of the input is EOF.
XferSplice ==
    /\ pc = "read" /\ ~eof_in /\ SpliceEligible
    /\ ~(output_is_pipe /\ reader_closed)
    /\ \E n \in 0..Allowed(InputRemaining) :
        /\ (n = 0) => (InputRemaining = 0 \/ Allowed(InputRemaining) = 0)
        /\ output' = output \o InputBytes(n)
        /\ in_pos' = in_pos + n
        /\ written' = written + n
        /\ pipe_fill' = IF output_is_pipe THEN pipe_fill + n ELSE pipe_fill
        /\ eof_in' = (InputRemaining = 0)
        /\ splice_used' = TRUE
        /\ hist' = [hist EXCEPT !.sent_bytes = @ + n,
                                !.sent_limited = IF rate_limit > 0 THEN @ + n ELSE @,
                                !.xfer_after_signal = @ \/ (trigger_exit = 1 /\ n > 0)]
    /\ pc' = "write"
    /\ UNCHANGED <<extVars, winVars, skipVars, dispVars, sigVars, crsVars, pidVars, posVars, watchVars,
                   files, file_idx, input_fd, opened, ctlVars, eof_out, final_update,
                   cansend, lineswritten, target, cur_time, next_ratecheck,
                   output_is_pipe, buffer_size, read_position, write_position,
                   transfer_buffer, total_written, written_but_not_consumed,
                   splice_failed_fd, flagVars, reader_closed, remote_left>>

\* Read phase, read(2): splice is not eligible, or it fails and the failure is
\* remembered for this descriptor.  The read returns n bytes (0 with input
\* left: nothing ready before the timeout) or EOF.
XferRead ==
    /\ pc = "read" /\ ~eof_in
    /\ SpliceEligible \/ ReadSpace > 0
    /\ splice_failed_fd' = IF SpliceEligible THEN input_fd ELSE splice_failed_fd
    /\ LET space == ReadSpace IN
        \/ /\ space > 0 /\ InputRemaining = 0
           /\ eof_in' = TRUE
           /\ UNCHANGED <<extVars, winVars, skipVars, in_pos, read_position, transfer_buffer>>
        \/ /\ space > 0 /\ InputRemaining > 0
           /\ \E n \in 0..Min(InputRemaining, space) :
                /\ transfer_buffer' = transfer_buffer \o InputBytes(n)
                /\ read_position' = read_position + n
                /\ in_pos' = in_pos + n
           /\ UNCHANGED <<extVars, winVars, skipVars, eof_in>>
        \/ /\ space = 0
           /\ UNCHANGED <<extVars, winVars, skipVars, eof_in, in_pos, read_position, transfer_buffer>>
    /\ hist' = [hist EXCEPT !.splice_failed_fds =
                                IF SpliceEligible THEN @ \cup {input_fd} ELSE @]
    /\ pc' = "write"
    /\ UNCHANGED <<extVars, winVars, skipVars, dispVars, sigVars, crsVars, pidVars, posVars, watchVars,
                   files, file_idx, input_fd, opened, ctlVars, eof_out, final_update,
                   cansend, written, lineswritten, target, cur_time, next_ratecheck,
                   output_is_pipe, buffer_size, write_position, total_written,
                   written_but_not_consumed, splice_used, flagVars, envVars>>

\* Write phase: up to Allowed(pending) bytes leave the buffer.  A write to a
\* pipe whose reader has gone fails with EPIPE: pipe_closed and both EOF flags
\* are set.  Any other write error makes pv_transfer return -1.
XferWrite ==
    /\ pc = "write"
    /\ LET to_write == IF eof_out THEN 0 ELSE Allowed(read_position - write_position) IN
        \/ /\ to_write = 0
           /\ pc' = "collapse"
           /\ UNCHANGED <<extVars, winVars, skipVars, eof_in, eof_out, written, lineswritten, write_position,
                          pipe_closed, output, pipe_fill, hist, line_positions,
                          line_positions_length, line_positions_head,
                          last_output_position>>
        \/ /\ to_write > 0 /\ output_is_pipe /\ reader_closed
           /\ pipe_closed' = 1
           /\ eof_in' = TRUE /\ eof_out' = TRUE
           /\ pc' = "collapse"
           /\ UNCHANGED <<extVars, winVars, skipVars, written, lineswritten, write_position, output, pipe_fill, hist,
                          line_positions, line_positions_length, line_positions_head,
                          last_output_position>>
        \/ /\ to_write > 0 /\ ~(output_is_pipe /\ reader_closed)
           /\ \E n \in 0..to_write :
                LET sent == SubSeq(Pending, 1, n)
                    lines == IF linemode THEN CountSeparators(sent) ELSE 0
                    ring == IF linemode THEN RecordLines(Ring, sent, 1) ELSE Ring
                IN  /\ output' = output \o sent
                    /\ line_positions' = ring.line_positions
                    /\ line_positions_length' = ring.line_positions_length
                    /\ line_positions_head' = ring.line_positions_head
                    /\ last_output_position' =
                            IF linemode THEN last_output_position + n
                            ELSE last_output_position
                    /\ pipe_fill' = IF output_is_pipe THEN pipe_fill + n ELSE pipe_fill
                    /\ write_position' = write_position + n
                    /\ written' = written + n
                    /\ lineswritten' = lineswritten + lines
                    /\ hist' = [hist EXCEPT
                            !.recorded = ring.recorded,
                            !.xfer_after_signal = @ \/ (trigger_exit = 1 /\ n > 0),
                            !.sent_bytes = @ + n,
                            !.sent_lines = @ + lines,
                            !.sent_limited =
                                IF rate_limit > 0
                                THEN @ + (IF linemode THEN lines ELSE n) ELSE @]
           /\ pc' = "collapse"
           /\ UNCHANGED <<extVars, winVars, skipVars, eof_in, eof_out, pipe_closed>>
        \/ /\ to_write > 0 /\ ~hist.write_error
           /\ written' = -1
           /\ hist' = [hist EXCEPT !.write_error = TRUE, !.empty_at_start = FALSE]
           /\ pc' = "account"
           /\ UNCHANGED <<extVars, winVars, skipVars, eof_in, eof_out, lineswritten, write_position, pipe_closed,
                          output, pipe_fill, line_positions, line_positions_length,
                          line_positions_head, last_output_position>>
    /\ UNCHANGED <<extVars, winVars, skipVars, dispVars, sigVars, crsVars, pidVars, transferred, watchVars,
                   fileVars, ctlVars, final_update, cansend, target, cur_time,
                   next_ratecheck, output_is_pipe, buffer_size, read_position,
                   transfer_buffer, total_written, written_but_not_consumed,
                   splice_used, splice_failed_fd, trigger_exit, exit_status,
                   output_produced, reader_closed, remote_left>>

\* An EOF closure that does not wait for the buffer to drain.
EofClosureUndrained(ein, empty) == ein

\* EOF closure: eof_out is set when eof_in is set and the buffer is empty.
EofClosure(ein, empty) == ein /\ empty

\* Buffer collapse and EOF closure.
XferCollapse ==
    /\ pc = "collapse"
    /\ LET empty == write_position = read_position IN
        /\ read_position' = IF empty THEN 0 ELSE read_position
        /\ write_position' = IF empty THEN 0 ELSE write_position
        /\ transfer_buffer' = IF empty THEN <<>> ELSE transfer_buffer
        /\ eof_out' = IF EofClosure(eof_in, empty) THEN TRUE ELSE eof_out
    /\ pc' = "account"
    /\ UNCHANGED <<extVars, winVars, skipVars, dispVars, sigVars, crsVars, pidVars, posVars, watchVars,
                   fileVars, ctlVars, eof_in, final_update, cansend, written,
                   lineswritten, target, cur_time, next_ratecheck, output_is_pipe,
                   buffer_size, total_written, written_but_not_consumed, splice_used,
                   splice_failed_fd, flagVars, envVars>>
    /\ hist' = [hist EXCEPT !.empty_at_start = FALSE]

(***************************************************************************)
(* pv_main_loop, lines 269-369: accounting after pv_transfer.              *)
(***************************************************************************)

\* Lines 277-285: the amount the tick adds to total_written and takes from
\* target.
TickAmount == IF linemode THEN lineswritten ELSE written

\* ioctl(output_fd, FIONREAD, &nbytes): the return value and the count.  The
\* query gives the bytes waiting in the pipe; it may also fail, or give a
\* negative count.
FionreadOutcomes ==
    {[ret |-> 0, nbytes |-> pipe_fill], [ret |-> 0, nbytes |-> -1],
     [ret |-> -1, nbytes |-> 0]}

\* Lines 292-313: written_but_not_consumed from FIONREAD on the output pipe,
\* r being what the query gives.
PipeOccupancy(r) ==
    IF output_is_pipe
    THEN (IF pipe_closed # 0 THEN 0
          ELSE IF r.ret = 0 THEN (IF r.nbytes >= 0 THEN r.nbytes ELSE 0)
          ELSE 0)
    ELSE written_but_not_consumed

\* Lines 354-358: the slot of the line_from_end-th newest position.
ArrayIndex(line_from_end) ==
    (line_positions_head + line_positions_capacity - line_from_end - 1)
        % line_positions_capacity

\* A walk that takes every position stored for one not yet consumed.
RECURSIVE WalkAll(_, _)
WalkAll(line_from_end, last_consumed_position) ==
    IF line_from_end < line_positions_length
    THEN {ArrayIndex(line_from_end)} \cup WalkAll(line_from_end + 1, last_consumed_position)
    ELSE {}

\* Lines 352-362: the walk back through the ring, from the newest position,
\* over at most line_positions_length entries, until a position at or before
\* last_consumed_position is met; the result is the set of slots whose
\* positions were counted in lines_not_consumed.
RECURSIVE Walk(_, _)
Walk(line_from_end, last_consumed_position) ==
    IF line_from_end < line_positions_length
    THEN IF line_positions[ArrayIndex(line_from_end)] <= last_consumed_position
         THEN {}
         ELSE {ArrayIndex(line_from_end)}
              \cup Walk(line_from_end + 1, last_consumed_position)
    ELSE {}

\* Lines 352-359: the slots of line_positions that the walk reads, the one
\* that stops it included.
RECURSIVE WalkReads(_, _)
WalkReads(line_from_end, last_consumed_position) ==
    IF line_from_end < line_positions_length
    THEN {ArrayIndex(line_from_end)}
         \cup (IF line_positions[ArrayIndex(line_from_end)] <= last_consumed_position
               THEN {}
               ELSE WalkReads(line_from_end + 1, last_consumed_position))
    ELSE {}

\* Lines 326-327: whether the lines waiting in the pipe are worked out.
WalksLines(wbnc) ==
    output_is_pipe /\ linemode /\ wbnc > 0 /\ line_positions # NoLinePositions

\* A count that takes everything written for consumed.
TransferredIsWritten(tw, wbnc) == tw

\* Lines 316-368: state->transfer.transferred, from the new total_written
\* and written_but_not_consumed.
Transferred(tw, wbnc) ==
    IF output_is_pipe /\ ~linemode THEN tw - wbnc
    ELSE IF WalksLines(wbnc)
         THEN tw - Cardinality(Walk(0, last_output_position - wbnc))
    ELSE tw

\* Lines 270-275: a write error ends pv_main_loop at once.
WriteErrorReturn ==
    /\ pc = "account"
    /\ written < 0
    /\ pc' = "done"
    /\ retval' = exit_status
    /\ UNCHANGED <<extVars, winVars, skipVars, dispVars, sigVars, crsVars, first_pass, posVars, watchVars,
                   fileVars, ctlVars, loopVars, xferVars, flagVars, envVars, hist>>

\* An accounting step that does not look at the sign of the return value.
AccountAnyReturn ==
    /\ pc = "account"
    /\ total_written' = total_written + TickAmount
    /\ target' = IF rate_limit > 0 THEN target - TickAmount * RefillDivisor ELSE target
    /\ \E r \in FionreadOutcomes :
        LET wbnc == PipeOccupancy(r) IN
        /\ written_but_not_consumed' = wbnc
        /\ transferred' = Transferred(total_written + TickAmount, wbnc)
        /\ hist' = [hist EXCEPT
              !.indexes_read = IF WalksLines(wbnc)
                               THEN WalkReads(0, last_output_position - wbnc)
                               ELSE {}]
    /\ pc' = "advance"
    /\ UNCHANGED <<extVars, winVars, skipVars, dispVars, sigVars, crsVars, pidVars, line_positions, line_positions_length,
                   line_positions_head, last_output_position, watchVars,
                   fileVars, ctlVars, eof_in, eof_out, final_update, cansend, written,
                   lineswritten, cur_time, next_ratecheck, output_is_pipe,
                   buffer_size, read_position, write_position, transfer_buffer,
                   splice_used, splice_failed_fd, flagVars, envVars>>

\* Lines 269-368: past the write error check, the tick's amount is added to
\* total_written and taken from target, FIONREAD is asked, and transferred
\* is worked out.
Account ==
    /\ pc = "account"
    /\ written >= 0
    /\ total_written' = total_written + TickAmount
    /\ target' = IF rate_limit > 0 THEN target - TickAmount * RefillDivisor ELSE target
    /\ \E r \in FionreadOutcomes :
        LET wbnc == PipeOccupancy(r) IN
        /\ written_but_not_consumed' = wbnc
        /\ transferred' = Transferred(total_written + TickAmount, wbnc)
        /\ hist' = [hist EXCEPT
              !.indexes_read = IF WalksLines(wbnc)
                               THEN WalkReads(0, last_output_position - wbnc)
                               ELSE {}]
    /\ pc' = "advance"
    /\ UNCHANGED <<extVars, winVars, skipVars, dispVars, sigVars, crsVars, pidVars, line_positions, line_positions_length,
                   line_positions_head, last_output_position, watchVars,
                   fileVars, ctlVars, eof_in, eof_out, final_update, cansend, written,
                   lineswritten, cur_time, next_ratecheck, output_is_pipe,
                   buffer_size, read_position, write_position, transfer_buffer,
                   splice_used, splice_failed_fd, flagVars, envVars>>

(***************************************************************************)
(* pv_main_loop, lines 371-385: one round of the file advancement loop.    *)
(***************************************************************************)
AdvanceFile ==
    /\ pc = "advance"
    /\ eof_in /\ eof_out /\ file_idx < file_count - 1
    /\ file_idx' = file_idx + 1
    /\ \E r \in NextFileOutcomes(file_idx + 1, input_fd) :
        /\ input_fd' = r.fd
        /\ exit_status' = exit_status \cup r.bits
        /\ eof_in' = IF r.fd >= 0 THEN FALSE ELSE eof_in
        /\ eof_out' = IF r.fd >= 0 THEN FALSE ELSE eof_out
        /\ in_pos' = IF r.fd >= 0 THEN 0 ELSE in_pos
        /\ opened' = IF r.fd >= 0 THEN Append(opened, r.fd) ELSE opened
        /\ hist' = NextFileHist(file_idx + 1, r)
    /\ UNCHANGED <<extVars, winVars, skipVars, dispVars, sigVars, crsVars, pidVars, posVars, watchVars,
                   pc, files, ctlVars, final_update, cansend, written, lineswritten,
                   target, cur_time, next_ratecheck, output_is_pipe, xferVars,
                   trigger_exit, pipe_closed, output_produced, envVars>>

AdvanceDone ==
    /\ pc = "advance"
    /\ ~(eof_in /\ eof_out /\ file_idx < file_count - 1)
    /\ pc' = "finish"
    /\ UNCHANGED <<extVars, winVars, skipVars, dispVars, sigVars, crsVars, pidVars, posVars, watchVars,
                   fileVars, ctlVars, loopVars, xferVars, flagVars, envVars, hist>>

(***************************************************************************)
(* pv_main_loop, lines 387-516: the clock, the final update flag and the   *)
(* display of the tick.                                                    *)
(***************************************************************************)

\* A final update that does not wait for the output pipe to drain.
FinalUpdateDueUndrained == eof_in /\ eof_out

\* Line 395: everything read, everything written, the output pipe empty.
FinalUpdateDue == eof_in /\ eof_out /\ written_but_not_consumed = 0

\* Lines 427-435: with -W, nothing is displayed until something is written.
StillWaiting == wait /\ (IF linemode THEN lineswritten < 1 ELSE written < 1)

\* Lines 418-471: whether the tick reaches the display.  The final update
\* forces it (lines 397-400) unless -W restarts next_update in the same tick
\* (line 458); otherwise it depends on the time left until next_update.
DisplayDue ==
    IF (no_display /\ ~show_stats) \/ wait THEN {FALSE}
    ELSE IF FinalUpdateDue /\ (output_produced \/ delay_start_small) THEN {TRUE}
    ELSE BOOLEAN

Finish ==
    /\ pc = "finish"
    /\ final_update' = (final_update \/ FinalUpdateDue)
    /\ wait' = IF (no_display /\ ~show_stats) THEN wait ELSE StillWaiting
    /\ \E due \in DisplayDue :
        LET frame == due /\ ~no_display IN
        /\ output_produced' = (output_produced \/ frame)
        /\ hist' = [hist EXCEPT
              !.final_frames = IF frame /\ final_update' THEN @ + 1 ELSE @,
              !.signal_frames = IF frame /\ trigger_exit = 1 THEN @ + 1 ELSE @,
              !.final_tick_ok = @ /\ ((frame /\ final_update') =>
                  (eof_in /\ eof_out /\ written_but_not_consumed = 0))]
    /\ pc' = "top"
    /\ UNCHANGED <<extVars, winVars, skipVars, dispVars, sigVars, crsVars, pidVars, posVars, watchVars,
                   fileVars, rate_limit, size, stop_at_size, linemode, no_splice,
                   target_buffer_size, no_display, show_stats, delay_start_small,
                   eof_in, eof_out, cansend, written, lineswritten, target, cur_time,
                   next_ratecheck, output_is_pipe, xferVars, trigger_exit, pipe_closed,
                   exit_status, envVars>>

(***************************************************************************)
(* pv_main_loop, lines 519-583: after the loop.                            *)
(***************************************************************************)
LoopExit ==
    /\ pc = "exit"
    /\ exit_status' = IF trigger_exit = 1
                      THEN exit_status \cup {PV_ERROREXIT_SIGNAL} ELSE exit_status
    /\ pc' = "done"
    /\ retval' = exit_status'
    /\ UNCHANGED <<extVars, winVars, skipVars, dispVars, sigVars, crsVars, first_pass, posVars, watchVars,
                   fileVars, ctlVars, loopVars, xferVars, trigger_exit, pipe_closed,
                   output_produced, envVars, hist>>

(***************************************************************************)
(* The environment.  A signal handler only sets its flag, at any point of  *)
(* the loop; the points that differ for the loop are: before the flag is   *)
(* read at the top of a tick, between that and pv_transfer, and after the  *)
(* loop.  The consumer's reads are seen by FIONREAD only, so they are      *)
(* taken right before it.                                                  *)
(***************************************************************************)

\* pv_sig_exit: SIGINT, SIGHUP or SIGTERM.
Signal ==
    /\ pc \in {"top", "grow", "exit", "watch", "watchexit", "pidwatch", "pidexit"}
    /\ trigger_exit = 0
    /\ trigger_exit' = 1
    /\ UNCHANGED <<extVars, winVars, skipVars, dispVars, sigVars, crsVars, pidVars, posVars, watchVars,
                   pc, fileVars, ctlVars, loopVars, xferVars, pipe_closed, exit_status,
                   output_produced, envVars, hist>>

\* The process at the other end of the output pipe reads some bytes.
Consumer ==
    /\ pc = "account"
    /\ output_is_pipe /\ ~reader_closed /\ pipe_fill > 0
    /\ \E n \in 1..pipe_fill : pipe_fill' = pipe_fill - n
    /\ UNCHANGED <<extVars, winVars, skipVars, dispVars, sigVars, crsVars, pidVars, posVars, watchVars,
                   pc, fileVars, ctlVars, loopVars, xferVars, flagVars, output,
                   reader_closed, remote_left, hist>>

\* The process at the other end closes the pipe; what it has not read stays
\* in the pipe buffer and FIONREAD goes on reporting it.
ClosePipe ==
    /\ pc \in {"grow", "account"}
    /\ output_is_pipe /\ ~reader_closed
    /\ reader_closed' = TRUE
    /\ UNCHANGED <<extVars, winVars, skipVars, dispVars, sigVars, crsVars, pidVars, posVars, watchVars,
                   pc, fileVars, ctlVars, loopVars, xferVars, flagVars, output,
                   pipe_fill, remote_left, hist>>

(***************************************************************************)
(* pv_watchfd_loop (pv -d PID:FD): pv transfers nothing and shows the      *)
(* offset of a descriptor that another process has open.                   *)
(***************************************************************************)

\* pv is watching: nothing of pv_main_loop is in use.
MainLoopIdle ==
    /\ files = <<>> /\ file_idx = 0 /\ input_fd = -1 /\ in_pos = 0 /\ opened = <<>>
    /\ rate_limit = 0 /\ stop_at_size = FALSE /\ linemode = FALSE /\ no_splice = FALSE
    /\ target_buffer_size = 0
    /\ no_display = FALSE /\ show_stats = FALSE /\ wait = FALSE /\ delay_start_small = TRUE
    /\ eof_in = FALSE /\ eof_out = FALSE /\ final_update = FALSE
    /\ cansend = 0 /\ written = 0 /\ lineswritten = 0 /\ target = 0
    /\ cur_time = 0 /\ next_ratecheck = 0 /\ output_is_pipe = FALSE
    /\ buffer_size = 0 /\ read_position = 0 /\ write_position = 0
    /\ transfer_buffer = <<>> /\ written_but_not_consumed = 0
    /\ splice_used = FALSE /\ splice_failed_fd = -1
    /\ transferred = 0 /\ line_positions = NoLinePositions
    /\ line_positions_length = 0 /\ line_positions_head = 0
    /\ last_output_position = 0
    /\ pipe_closed = 0 /\ output = <<>> /\ pipe_fill = 0 /\ reader_closed = FALSE
    /\ remote_left = 0
    /\ retval = {} /\ first_pass = TRUE
    /\ hist = InitHist

InitWatchfd ==
    /\ pc = "watchopen"
    /\ MainLoopIdle /\ SignalIdle /\ CursorIdle /\ DisplayIdle /\ ResizeIdle /\ SkipIdle /\ ExtIdle
    /\ size \in 0..MaxSize
    /\ total_written = 0
    /\ trigger_exit = 0 /\ exit_status = {} /\ output_produced = FALSE
    /\ position \in 0..MaxPos
    /\ ended = FALSE /\ first_check = TRUE /\ initial_offset = 0

\* Lines 618-665: pv_watchfd_info fails and the loop is not entered, or it
\* gives the size of the watched file, used when no size was passed.
WatchOpen ==
    /\ pc = "watchopen"
    /\ \/ /\ exit_status' = exit_status \cup {PV_ERROREXIT_ACCESS}
          /\ pc' = "done"
          /\ UNCHANGED size
       \/ /\ size' \in IF 0 >= size THEN 0..MaxSize ELSE {size}
          /\ pc' = "watch"
          /\ UNCHANGED exit_status
    /\ retval' = (IF pc' = "done" THEN exit_status' ELSE retval)
    /\ UNCHANGED <<extVars, winVars, skipVars, dispVars, sigVars, crsVars, first_pass, posVars, fileVars, rate_limit, stop_at_size, linemode, no_splice,
                   target_buffer_size, no_display, show_stats, wait, delay_start_small,
                   loopVars, xferVars, trigger_exit, pipe_closed, output_produced,
                   envVars, watchVars, hist>>

\* Lines 667-749: one tick.  position_now is the offset that
\* pv_watchfd_position reports, negative once the descriptor is closed.
WatchTick ==
    /\ pc = "watch" /\ ~ended
    /\ IF trigger_exit = 1 THEN
           /\ pc' = "watchexit"
           /\ hist' = [hist EXCEPT !.broke = TRUE]
           /\ UNCHANGED <<extVars, winVars, skipVars, ended, first_check, initial_offset, total_written,
                          transferred, output_produced>>
       ELSE LET position_now == position IN
           /\ ended' = (position_now < 0)
           /\ first_check' = IF position_now < 0 THEN first_check ELSE FALSE
           /\ initial_offset' = IF position_now >= 0 /\ first_check
                                THEN position_now ELSE initial_offset
           /\ total_written' = IF position_now < 0 THEN total_written ELSE position_now
           /\ transferred' = IF position_now < 0 THEN transferred ELSE position_now
           /\ output_produced' \in IF position_now < 0 THEN {TRUE}
                                   ELSE {output_produced, TRUE}
           /\ UNCHANGED <<extVars, winVars, skipVars, pc, hist>>
    /\ UNCHANGED <<extVars, winVars, skipVars, dispVars, sigVars, crsVars, pidVars, line_positions, line_positions_length,
                   line_positions_head, last_output_position,
                   fileVars, ctlVars, loopVars, buffer_size, read_position,
                   write_position, transfer_buffer, written_but_not_consumed,
                   splice_used, splice_failed_fd, trigger_exit, pipe_closed,
                   exit_status, envVars, position>>

\* Line 667: the loop ends once the descriptor is gone.
WatchEnd ==
    /\ pc = "watch" /\ ended
    /\ pc' = "watchexit"
    /\ UNCHANGED <<extVars, winVars, skipVars, dispVars, sigVars, crsVars, pidVars, posVars, fileVars, ctlVars, loopVars, xferVars, flagVars, envVars,
                   watchVars, hist>>

\* Lines 751-762.
WatchExit ==
    /\ pc = "watchexit"
    /\ exit_status' = IF trigger_exit = 1
                      THEN exit_status \cup {PV_ERROREXIT_SIGNAL} ELSE exit_status
    /\ pc' = "done"
    /\ retval' = exit_status'
    /\ UNCHANGED <<extVars, winVars, skipVars, dispVars, sigVars, crsVars, first_pass, posVars, fileVars, ctlVars, loopVars, xferVars, trigger_exit, pipe_closed,
                   output_produced, envVars, watchVars, hist>>

\* The watched process reads, writes or seeks on the descriptor, or closes it.
WatchedProcess ==
    /\ pc = "watch" /\ position >= 0
    /\ position' \in ((-1)..MaxPos) \ {position}
    /\ UNCHANGED <<extVars, winVars, skipVars, dispVars, sigVars, crsVars, pidVars, posVars, pc, fileVars, ctlVars, loopVars, xferVars, flagVars, envVars,
                   ended, first_check, initial_offset, hist>>

(***************************************************************************)
(* pv_watchpid_loop (pv -d PID): pv shows the offsets of all the           *)
(* descriptors of another process.                                         *)
(***************************************************************************)

\* PV_ERROREXIT_ACCESS as the function's return value.
ReturnAccess == {PV_ERROREXIT_ACCESS}

\* "return 0".
ReturnZero == {}

InitWatchpid ==
    /\ pc = "pidopen"
    /\ MainLoopIdle /\ SignalIdle /\ CursorIdle /\ DisplayIdle /\ WatchIdle /\ ResizeIdle /\ SkipIdle /\ ExtIdle
    /\ size = 0 /\ total_written = 0
    /\ trigger_exit = 0 /\ exit_status = {}
    /\ output_produced = FALSE

\* Lines 795-852: the process does not exist and the function returns, or
\* the loop is entered.
WatchpidOpen ==
    /\ pc = "pidopen"
    /\ \/ /\ exit_status' = exit_status \cup {PV_ERROREXIT_ACCESS}
          /\ retval' = ReturnAccess
          /\ pc' = "done"
       \/ /\ pc' = "pidwatch"
          /\ UNCHANGED <<extVars, winVars, skipVars, exit_status, retval>>
    /\ UNCHANGED <<extVars, winVars, skipVars, dispVars, sigVars, crsVars, first_pass, posVars, fileVars, ctlVars, loopVars, xferVars,
                   trigger_exit, pipe_closed, output_produced, envVars, watchVars, hist>>

\* Lines 854-1048: one round of the loop.  trigger_exit ends it; so does the
\* end of the watched process (kill or pv_watchpid_scanfds fails), with an
\* error return in the first pass; otherwise the descriptors are displayed.
WatchpidTick ==
    /\ pc = "pidwatch"
    /\ IF trigger_exit = 1 THEN
           /\ pc' = "pidexit"
           /\ hist' = [hist EXCEPT !.broke = TRUE]
           /\ UNCHANGED <<extVars, winVars, skipVars, exit_status, retval, first_pass, output_produced>>
       ELSE \E gone \in BOOLEAN :
           IF gone THEN
               /\ pc' = IF first_pass THEN "done" ELSE "pidexit"
               /\ exit_status' = IF first_pass
                                 THEN exit_status \cup {PV_ERROREXIT_ACCESS}
                                 ELSE exit_status
               /\ retval' = IF first_pass THEN ReturnAccess ELSE retval
               /\ UNCHANGED <<extVars, winVars, skipVars, first_pass, output_produced, hist>>
           ELSE
               /\ first_pass' \in {first_pass, FALSE}
               /\ output_produced' \in {output_produced, first_pass' = FALSE}
               /\ UNCHANGED <<extVars, winVars, skipVars, pc, exit_status, retval, hist>>
    /\ UNCHANGED <<extVars, winVars, skipVars, dispVars, sigVars, crsVars, posVars, fileVars, ctlVars, loopVars, xferVars,
                   trigger_exit, pipe_closed, envVars, watchVars>>

\* Lines 1050-1086: the displayed lines are cleaned up and the function
\* returns.
WatchpidExit ==
    /\ pc = "pidexit"
    /\ retval' = ReturnZero
    /\ pc' = "done"
    /\ UNCHANGED <<extVars, winVars, skipVars, dispVars, sigVars, crsVars, first_pass, posVars, fileVars, ctlVars, loopVars, xferVars,
                   flagVars, envVars, watchVars, hist>>

Init == InitMainLoop \/ InitWatchfd \/ InitWatchpid

Next ==
    \/ OpenFirst \/ NoInput \/ LoopEnter
    \/ LoopEnd \/ LoopTop
    \/ XferGrow \/ XferReadNone \/ XferSplice \/ XferRead \/ XferWrite \/ XferCollapse
    \/ WriteErrorReturn \/ Account
    \/ AdvanceFile \/ AdvanceDone
    \/ Finish \/ LoopExit
    \/ Signal \/ Consumer \/ ClosePipe
    \/ WatchOpen \/ WatchTick \/ WatchEnd \/ WatchExit \/ WatchedProcess
    \/ WatchpidOpen \/ WatchpidTick \/ WatchpidExit

Spec == Init /\ [][Next]_vars

\* The steps of pv itself, as opposed to those of the processes around it.
PvStep ==
    \/ OpenFirst \/ NoInput \/ LoopEnter
    \/ LoopEnd \/ LoopTop
    \/ XferGrow \/ XferReadNone \/ XferSplice \/ XferRead \/ XferWrite \/ XferCollapse
    \/ WriteErrorReturn \/ Account
    \/ AdvanceFile \/ AdvanceDone
    \/ Finish \/ LoopExit
    \/ WatchOpen \/ WatchTick \/ WatchEnd \/ WatchExit
    \/ WatchpidOpen \/ WatchpidTick \/ WatchpidExit

\* pv_main_loop and the processes around it.
NextMainLoop ==
    \/ OpenFirst \/ NoInput \/ LoopEnter
    \/ LoopEnd \/ LoopTop
    \/ XferGrow \/ XferReadNone \/ XferSplice \/ XferRead \/ XferWrite \/ XferCollapse
    \/ WriteErrorReturn \/ Account
    \/ AdvanceFile \/ AdvanceDone
    \/ Finish \/ LoopExit
    \/ Signal \/ Consumer \/ ClosePipe

\* The steps of pv_main_loop itself.
PvMainStep ==
    \/ OpenFirst \/ NoInput \/ LoopEnter
    \/ LoopEnd \/ LoopTop
    \/ XferGrow \/ XferReadNone \/ XferSplice \/ XferRead \/ XferWrite \/ XferCollapse
    \/ WriteErrorReturn \/ Account
    \/ AdvanceFile \/ AdvanceDone
    \/ Finish \/ LoopExit

\* pv_main_loop copies bytes to a pipe, with no rate limit, no display and
\* no message of pv -R.
InitFair ==
    /\ InitMainLoop
    /\ output_is_pipe /\ ~linemode /\ rate_limit = 0
    /\ remote_left = 0 /\ ~stop_at_size /\ no_display /\ ~show_stats

\* pv is a running process: as long as it has a step to take, it takes one.
\* Nothing is assumed of the signals or the consumer.
SpecFair == InitFair /\ [][NextMainLoop]_vars /\ WF_vars(PvMainStep)

(***************************************************************************)
(* pv_main_loop writing to a pipe it shares: standard output is a pipe     *)
(* another process wrote to before pv, as in "{ cmd; pv file; } | reader", *)
(* and some of those bytes are still waiting when pv starts.  FIONREAD     *)
(* counts every byte waiting in the pipe, whoever wrote it.                *)
(***************************************************************************)
InitShared ==
    /\ MainLoopEntered
    /\ output_is_pipe
    /\ pipe_fill \in 1..MaxForeign
    /\ remote_left = 0 /\ ~stop_at_size /\ no_display

SpecShared == InitShared /\ [][NextMainLoop]_vars

(***************************************************************************)
(* The rate calculator, src/pv/calc.c.  Times are in microseconds.  A rate *)
(* is a long double in the program; here it is kept in whole bytes per     *)
(* second, rounded away from zero, so that its sign, and whether it is 0,  *)
(* are those of the exact quotient.                                        *)
(***************************************************************************)

\* amount / seconds, for a time of usec microseconds.
Rate(amount, usec) ==
    LET n == amount * USEC_PER_SEC
    IN  IF n >= 0 THEN (n + usec - 1) \div usec ELSE -(((-n) + usec - 1) \div usec)

\* state->control.history_interval for a window below 20 seconds: 1 second.
history_interval == USEC_PER_SEC

\* pv_percentage(so_far, total): 100 * so_far / total as an integer.
pv_percentage(so_far, total) ==
    IF total < 1 THEN 0 ELSE TruncDiv(100 * so_far, total)

\* A percentage that is left as computed.
KeepPercentage(p) == p

\* calc.c:166-170: the percentage is never negative or huge.
ClampPercentage(p) ==
    IF p < 0 THEN 0 ELSE IF p > PERCENTAGE_MAX THEN PERCENTAGE_MAX ELSE p

\* A history that takes an entry whenever the time has moved on.
HistoryDueAtOnce(last_elapsed, es) == ~(last_elapsed > 0 /\ es <= last_elapsed)

\* calc.c:35-37: an entry is due at the first call, or when history_interval
\* has passed since the newest entry.
HistoryDue(last_elapsed, es) ==
    ~(last_elapsed > 0 /\ es < last_elapsed + history_interval)

\* A ring that keeps its oldest entry.
NextFirstKept(first, last, len) == first

\* calc.c:47-50: when the new entry lands on the oldest, the oldest is the
\* one after it.
NextFirst(first, last, len) == IF last = first THEN (first + 1) % len ELSE first

\* pv__update_average_rate_history(state, rate), calc.c:20-63, at elapsed time
\* es and total tw.
pv__update_average_rate_history(c, rate, es, tw) ==
    LET last_elapsed == c.history[c.history_last].elapsed_sec
        again == last_elapsed > 0
        len == c.history_len
        last == IF again THEN (c.history_last + 1) % len ELSE c.history_last
        first == IF again THEN NextFirst(c.history_first, last, len)
                 ELSE c.history_first
        history == [c.history EXCEPT ![last] = [elapsed_sec |-> es, total_written |-> tw]]
        bytes == history[last].total_written - history[first].total_written
        sec == history[last].elapsed_sec - history[first].elapsed_sec
    IN  IF ~HistoryDue(last_elapsed, es) THEN c
        ELSE [c EXCEPT !.history_last = last, !.history_first = first,
                       !.history = history,
                       !.current_avg_rate = IF first = last THEN rate
                                            ELSE Rate(bytes, sec)]

\* A sweep that reaches 200 before it starts again.
SweepTo200(percentage, transfer_rate) ==
    LET swept == IF transfer_rate > 0 THEN percentage + 2 ELSE percentage
    IN  IF swept > 200 THEN 0 ELSE swept

\* calc.c:158-161: with the size unknown the percentage moves on by 2 when
\* data is arriving and starts again at 0 beyond 199.
Sweep(percentage, transfer_rate) ==
    LET swept == IF transfer_rate > 0 THEN percentage + 2 ELSE percentage
    IN  IF swept > 199 THEN 0 ELSE swept

\* A test that lets a call exactly 0.01 s after the last measurement measure.
TooSoonBelow(time_since_last) == time_since_last < USEC_PER_SEC \div 100

\* calc.c:100: the time since the last measurement is too short for a rate.
TooSoon(time_since_last) == time_since_last <= USEC_PER_SEC \div 100

\* pv_calculate_transfer_rate(state, final), calc.c:78-171, for the total tw,
\* the elapsed time es, the size sz and the initial offset io: the new
\* state->calc and the new state->transfer.elapsed_seconds.
pv_calculate_transfer_rate(c, tw, es, sz, io, final) ==
    LET bytes_since_last == IF tw >= 0 THEN tw - c.prev_total_written ELSE 0
        time_since_last == es - c.prev_elapsed_sec
        spike == TooSoon(time_since_last)
        rate == IF spike THEN c.prev_rate
                ELSE Rate(bytes_since_last + c.prev_trans, time_since_last)
        measured_rate == IF bits THEN 8 * rate ELSE rate
        c1 == IF spike
              THEN [c EXCEPT !.prev_trans = @ + bytes_since_last]
              ELSE [c EXCEPT
                      !.prev_elapsed_sec = es,
                      !.prev_trans = 0,
                      !.rate_min = IF c.measurements_taken < 1 \/ measured_rate < @
                                   THEN measured_rate ELSE @,
                      !.rate_max = IF measured_rate > @ THEN measured_rate ELSE @,
                      !.rate_sum = @ + measured_rate,
                      !.ratesquared_sum = @ + measured_rate * measured_rate,
                      !.measurements_taken = @ + 1]
        c2 == [c1 EXCEPT !.prev_total_written = IF tw >= 0 THEN tw ELSE @,
                         !.prev_rate = rate]
        c3 == pv__update_average_rate_history(c2, rate, es, tw)
        es_final == IF final /\ es < 1 THEN 1 ELSE es
        whole == Rate(tw - io, es_final)
        transfer_rate == IF final THEN whole ELSE rate
        average_rate == IF final THEN whole ELSE c3.current_avg_rate
        percentage == IF sz <= 0
                      THEN Sweep(c.percentage, transfer_rate)
                      ELSE pv_percentage(tw, sz)
    IN  [calc |-> [c3 EXCEPT !.transfer_rate = transfer_rate,
                             !.average_rate = average_rate,
                             !.percentage = ClampPercentage(percentage)],
         elapsed_seconds |-> es_final]

\* The time that passes between two calls: none, exactly the 0.01 s below
\* which no rate is measured, or a second.
ElapsedSteps == {0, USEC_PER_SEC \div 100, USEC_PER_SEC}

\* A total far above any size, whose percentage is beyond PERCENTAGE_MAX.
LargeTotal == PERCENTAGE_MAX \div 100 + 1

\* The totals a call may find at elapsed time es: total_written is a count
\* of bytes or lines, or a position that could be read (loop.c:278-282,
\* 681-689), so it is never negative; it has not decreased, and it jumps to
\* LargeTotal only over a whole second.
TotalInputs(es) ==
    {t \in 0..MaxTotal : t >= total_written}
    \cup (IF es - calc.prev_elapsed_sec >= USEC_PER_SEC \/ total_written = LargeTotal
          THEN {LargeTotal} ELSE {})

\* pv_calculate_transfer_rate is studied on its own: the transfer is reduced
\* to the totals and elapsed times the calls are made with.
InitCalc ==
    /\ pc = "calc"
    /\ MainLoopIdle /\ SignalIdle /\ CursorIdle /\ WatchIdle /\ ResizeIdle /\ SkipIdle /\ ExtIdle
    /\ size \in 0..MaxSize
    /\ total_written = 0
    /\ trigger_exit = 0 /\ exit_status = {} /\ output_produced = FALSE
    /\ calc \in {InitialCalc(w + 1) : w \in 1..MaxWindow}
    /\ elapsed_seconds = 0
    /\ bits \in BOOLEAN
    /\ FormatIdle

\* What a call at elapsed time es with the total tw adds to the record of
\* the run: the time of the call, the time of the last call that came more
\* than 0.01 s after the one before it in this record, and the amount
\* transferred since that call.
CalcHist(es, tw) ==
    LET measures == es - hist.measured_at > USEC_PER_SEC \div 100
    IN  [hist EXCEPT !.calls = @ + 1,
                     !.call_at = es,
                     !.measured_at = IF measures THEN es ELSE @,
                     !.carried = IF measures THEN 0 ELSE @ + (tw - total_written)]

\* One display tick: the transfer has moved on, time has passed, and
\* pv_calculate_transfer_rate is called; the call with final = true is the
\* last of the run.
CalcTick ==
    /\ pc = "calc"
    /\ hist.calls < MaxCalls
    /\ \E step \in ElapsedSteps, final \in BOOLEAN :
        \E tw \in TotalInputs(elapsed_seconds + step) :
            LET r == pv_calculate_transfer_rate(calc, tw, elapsed_seconds + step,
                                                size, initial_offset, final)
            IN  /\ total_written' = tw
                /\ calc' = r.calc
                /\ elapsed_seconds' = r.elapsed_seconds
                /\ pc' = IF final THEN "done" ELSE "calc"
                /\ hist' = CalcHist(elapsed_seconds + step, tw)
    /\ UNCHANGED <<extVars, winVars, skipVars, fileVars, ctlVars, loopVars, buffer_size, read_position,
                   write_position, transfer_buffer, written_but_not_consumed,
                   splice_used, splice_failed_fd, flagVars, envVars, watchVars,
                   bits, fmtVars, posVars, pidVars, sigVars, crsVars>>

NextCalc == CalcTick

SpecCalc == InitCalc /\ [][NextCalc]_vars

\* A long transfer of unknown size, a display tick per second: the
\* percentage has the calls to go round more than once.
InitSweep ==
    /\ pc = "sweep"
    /\ MainLoopIdle /\ SignalIdle /\ CursorIdle /\ WatchIdle /\ ResizeIdle /\ SkipIdle /\ ExtIdle
    /\ size = 0
    /\ total_written = 0
    /\ trigger_exit = 0 /\ exit_status = {} /\ output_produced = FALSE
    /\ calc = InitialCalc(2)
    /\ elapsed_seconds = 0
    /\ bits = FALSE
    /\ FormatIdle

\* One display tick of the long transfer: a byte has arrived or none has.
SweepTick ==
    /\ pc = "sweep"
    /\ hist.calls < MaxSweeps
    /\ \E final \in BOOLEAN, tw \in {total_written, total_written + 1} :
            LET r == pv_calculate_transfer_rate(calc, tw, elapsed_seconds + USEC_PER_SEC,
                                                size, initial_offset, final)
            IN  /\ total_written' = tw
                /\ calc' = r.calc
                /\ elapsed_seconds' = r.elapsed_seconds
                /\ pc' = IF final THEN "done" ELSE "sweep"
    /\ hist' = [hist EXCEPT !.calls = @ + 1]
    /\ UNCHANGED <<extVars, winVars, skipVars, fileVars, ctlVars, loopVars, buffer_size, read_position,
                   write_position, transfer_buffer, written_but_not_consumed,
                   splice_used, splice_failed_fd, flagVars, envVars, watchVars,
                   bits, fmtVars, posVars, pidVars, sigVars, crsVars>>

NextSweep == SweepTick

SpecSweep == InitSweep /\ [][NextSweep]_vars

(***************************************************************************)
(* The formatter, src/pv/display.c.  A string is a sequence of one-        *)
(* character strings; every character is ASCII, so the width of a string   *)
(* (pv_strwidth) is its length in bytes.                                   *)
(***************************************************************************)

\* The terminator of a C string.
NUL == ""

\* The character at 0-based index i of the C string str; the terminator
\* follows the last character.
CharAt(str, i) == IF i < Len(str) THEN str[i + 1] ELSE NUL

Digits == <<"0", "1", "2", "3", "4", "5", "6", "7", "8", "9">>

IsDigit(ch) == \E d \in 1..Len(Digits) : Digits[d] = ch

DigitValue(ch) == (CHOOSE d \in 1..Len(Digits) : Digits[d] = ch) - 1

\* "%ld" of a number that is not negative.
RECURSIVE Decimal(_)
Decimal(n) ==
    IF n < Len(Digits) THEN <<Digits[n + 1]>>
    ELSE Decimal(n \div Len(Digits)) \o <<Digits[(n % Len(Digits)) + 1]>>

\* str right-aligned in a field of w characters filled with ch; a longer
\* str is left alone ("%3ld", "%02ld", "%9.500s").
PadLeft(str, w, ch) ==
    IF Len(str) >= w THEN str ELSE [i \in 1..(w - Len(str)) |-> ch] \o str

\* strtoul(str + i, &end, 10) over digits: the number of digits at index i.
RECURSIVE DigitRun(_, _)
DigitRun(str, i) == IF IsDigit(CharAt(str, i)) THEN 1 + DigitRun(str, i + 1) ELSE 0

\* ... and their value.
RECURSIVE DigitsValue(_, _, _)
DigitsValue(str, i, n) ==
    IF n = 0 THEN 0
    ELSE DigitsValue(str, i, n - 1) * Len(Digits) + DigitValue(CharAt(str, i + n - 1))

\* The characters from index i up to the terminator, a "}" or a "%"
\* (display.c:1426-1430).
RECURSIVE BraceRun(_, _)
BraceRun(str, i) ==
    IF CharAt(str, i) \in {NUL, "}", "%"} THEN 0 ELSE 1 + BraceRun(str, i + 1)

\* The characters from index i up to the terminator or a "%"
\* (display.c:1471-1477).
RECURSIVE StaticRun(_, _)
StaticRun(str, i) ==
    IF CharAt(str, i) \in {NUL, "%"} THEN 0 ELSE 1 + StaticRun(str, i + 1)

\* format_component[], display.c:1302-1329: the progress bar, the timer, the
\* ETA and the name, under their short and their long names.
format_component ==
    << [match |-> <<"p">>, function |-> "progress", dynamic |-> TRUE],
       [match |-> <<"{", "p", "r", "o", "g", "r", "e", "s", "s", "}">>,
        function |-> "progress", dynamic |-> TRUE],
       [match |-> <<"t">>, function |-> "timer", dynamic |-> FALSE],
       [match |-> <<"{", "t", "i", "m", "e", "r", "}">>,
        function |-> "timer", dynamic |-> FALSE],
       [match |-> <<"e">>, function |-> "eta", dynamic |-> FALSE],
       [match |-> <<"{", "e", "t", "a", "}">>, function |-> "eta", dynamic |-> FALSE],
       [match |-> <<"N">>, function |-> "name", dynamic |-> FALSE],
       [match |-> <<"{", "n", "a", "m", "e", "}">>,
        function |-> "name", dynamic |-> FALSE],
       [match |-> <<"L">>, function |-> "previous_line", dynamic |-> TRUE],
       [match |-> <<"{", "p", "r", "e", "v", "i", "o", "u", "s", "-", "l", "i", "n", "e", "}">>,
        function |-> "previous_line", dynamic |-> TRUE] >>

\* display.c:1433-1445: the first component whose name is the sequence of
\* sequence_length characters at sequence_start, or -1.
ComponentType(str, sequence_start, sequence_length) ==
    LET matching == {c \in 1..Len(format_component) :
                        /\ Len(format_component[c].match) = sequence_length
                        /\ \A k \in 1..sequence_length :
                              format_component[c].match[k]
                                  = CharAt(str, sequence_start + k - 1)}
    IN  IF matching = {} THEN -1
        ELSE CHOOSE c \in matching : \A o \in matching : c <= o

\* A zeroed entry of display->format[] (display.c:1347).
EmptySegment == [type |-> 0, chosen_size |-> 0, offset |-> 0, bytes |-> 0, width |-> 0]

\* One pass of the loop of pv__format_init, display.c:1381-1520, started at
\* index strpos: the entry written to display->format[], the index the
\* next pass starts at and the highest index read.  str_bytes is never 0, so every entry is counted.
FormatInitStep(str, strpos) ==
    IF CharAt(str, strpos) = "%"
    THEN LET percent_sign_offset == strpos
             digits == DigitRun(str, strpos + 1)
             at_end == CharAt(str, strpos + 1 + digits) = NUL
             number_prefix == IF at_end THEN 0
                              ELSE DigitsValue(str, strpos + 1, digits)
             sequence_start == IF at_end THEN strpos + 1 ELSE strpos + 1 + digits
             brace == IF CharAt(str, sequence_start) = "{"
                      THEN BraceRun(str, sequence_start) ELSE 0
             sequence_length ==
                 (IF CharAt(str, sequence_start) # NUL THEN 1 ELSE 0) + brace
             pos == sequence_start + brace
             component_type == ComponentType(str, sequence_start, sequence_length)
             str_bytes == sequence_length + sequence_start - percent_sign_offset
             doubled == str_bytes = 2 /\ CharAt(str, percent_sign_offset + 1) = "%"
             cut == (~doubled) /\ str_bytes > 1 /\ CharAt(str, pos) = "%"
             bytes == IF doubled THEN 1 ELSE IF cut THEN str_bytes - 1 ELSE str_bytes
         IN  IF component_type = -1
             THEN [segment |-> [type |-> -1, chosen_size |-> 0,
                                offset |-> percent_sign_offset,
                                bytes |-> bytes, width |-> bytes],
                   next |-> (IF cut THEN pos - 1 ELSE pos) + 1, last_read |-> pos]
             ELSE [segment |-> [EmptySegment EXCEPT !.type = component_type,
                                                    !.chosen_size = number_prefix],
                   next |-> pos + 1, last_read |-> pos]
    ELSE LET foundlength == StaticRun(str, strpos)
         IN  [segment |-> [type |-> -1, chosen_size |-> 0, offset |-> strpos,
                           bytes |-> foundlength, width |-> foundlength],
              next |-> strpos + foundlength, last_read |-> strpos + foundlength]

RECURSIVE FormatInitFrom(_, _, _)
FormatInitFrom(str, strpos, segments) ==
    IF CharAt(str, strpos) = NUL \/ Len(segments) >= PV_FORMAT_ARRAY_MAX
    THEN segments
    ELSE LET step == FormatInitStep(str, strpos)
         IN  FormatInitFrom(str, step.next, Append(segments, step.segment))

\* pv__format_init, display.c:1335-1521: display->format[] for the format
\* string str.  (A format that ends in a lone "%" makes the loop read past
\* the terminator; no such format is among those studied.)
pv__format_init(str) == FormatInitFrom(str, 0, <<>>)

\* n copies of the character ch.
Repeat(ch, n) == [i \in 1..n |-> ch]

\* pv__format_segmentcontent, display.c:455-477: the segment and the bytes
\* added to the buffer at offset.
pv__format_segmentcontent(content, segment, offset) ==
    LET bytes == IF offset >= SIZEOF_DISPLAY_SEGMENTS
                    \/ offset + Len(content) >= SIZEOF_DISPLAY_SEGMENTS
                 THEN 0 ELSE Len(content)
    IN  [segment |-> [segment EXCEPT !.offset = offset, !.bytes = bytes],
         content |-> IF bytes = 0 THEN <<>> ELSE content]

\* pv__format_progress_knownsize with the sides, the bar and the amount,
\* display.c:496-612, for a known size.  The content never reaches the end of
\* the 1024-byte buffer, the bar area being at most 1008 wide.
pv__format_progress_knownsize(w, percentage) ==
    LET after_bar == <<" ">> \o PadLeft(Decimal(percentage), 3, " ") \o <<"%">>
        bar_area_width == Min(w - Len(after_bar) - 2, SIZEOF_CONTENT - 16)
        scaled == (bar_area_width * percentage) \div 100
        filled_bar_width == IF scaled > 0 THEN scaled - 1 ELSE 0
        bar == Repeat("=", Min(filled_bar_width, bar_area_width))
        tip == IF filled_bar_width < bar_area_width
               THEN <<">">> \o Repeat(" ", bar_area_width - filled_bar_width - 1)
               ELSE <<>>
        body == <<"[">> \o bar \o tip \o <<"]">>
    IN  IF w < Len(after_bar) + 2 THEN <<>>
        ELSE IF Len(after_bar) < SIZEOF_CONTENT - 1 - Len(body)
             THEN body \o after_bar ELSE body

\* display.c:653-657: the place of the indicator, in hundredths of the bar.
IndicatorPosition(percentage) ==
    LET wrapped == IF percentage > 200 THEN percentage % 200 ELSE percentage
    IN  IF wrapped > 100 /\ wrapped <= 200 THEN 200 - wrapped ELSE wrapped

\* pv__format_progress_unknownsize with the sides, display.c:625-694.
pv__format_progress_unknownsize(w, percentage) ==
    LET bar_area_width == Min(w - 5, SIZEOF_CONTENT - 16)
        indicator_position == IndicatorPosition(percentage)
        before == Min((bar_area_width * indicator_position) \div 100, bar_area_width)
        lead == <<"[">> \o Repeat(" ", before)
        indicator == IF Len(lead) < SIZEOF_CONTENT - 4 THEN <<"<", "=", ">">> ELSE <<>>
    IN  IF w < 6 THEN <<>>
        ELSE lead \o indicator \o Repeat(" ", bar_area_width - before) \o <<"]">>

\* "%ld:%02ld:%02ld", or "%ld:%02ld:%02ld:%02ld" beyond a day, of a number
\* of seconds (display.c:815-830, 871-880).
Clock(seconds) ==
    LET mmss == <<":">> \o PadLeft(Decimal((seconds \div 60) % 60), 2, "0")
                \o <<":">> \o PadLeft(Decimal(seconds % 60), 2, "0")
    IN  IF seconds > SECONDS_PER_DAY
        THEN Decimal(seconds \div SECONDS_PER_DAY) \o <<":">>
             \o PadLeft(Decimal((seconds \div 3600) % 24), 2, "0") \o mmss
        ELSE Decimal(seconds \div 3600) \o mmss

\* pv__seconds_remaining, display.c:185-195, then bound_long(eta, 0, ...),
\* display.c:864.
pv__seconds_remaining(so_far, total, rate) ==
    LET eta == IF so_far < 1 \/ rate <= 0 THEN 0 ELSE TruncDiv(total - so_far, rate)
    IN  IF eta < 0 THEN 0 ELSE IF eta > ETA_MAX THEN ETA_MAX ELSE eta

\* isprint of the characters studied: the tab is not printable, and neither
\* is the NUL that fills the rest of a buffer.
IsPrint(ch) == ch \notin {NUL, "\t"}

\* The loop of pv__format_previous_line, display.c:1172-1176: the first n
\* bytes of display->previous_line, which is line and then NULs, with a
\* space for each byte that is not printable.
PreviousLineShown(line, n) ==
    [i \in 1..n |-> IF i <= Len(line) /\ IsPrint(line[i]) THEN line[i] ELSE " "]

\* pv__format_previous_line, display.c:1145-1179, with a buffer: nothing is
\* shown and the segment is left as it was when there is no width or when
\* the bytes do not fit the buffer.
pv__format_previous_line(line, segment, offset) ==
    LET asked == IF segment.chosen_size = 0 THEN segment.width ELSE segment.chosen_size
        bytes_to_show == Min(asked, PV_SIZEOF_PREVLINE_BUFFER)
    IN  IF asked = 0 \/ offset + bytes_to_show >= SIZEOF_DISPLAY_SEGMENTS
        THEN [segment |-> segment, content |-> <<>>]
        ELSE [segment |-> [segment EXCEPT !.offset = offset, !.bytes = bytes_to_show],
              content |-> PreviousLineShown(line, bytes_to_show)]

\* The function of a component (display.c:700-724, 791-833, 839-895,
\* 1145-1179, 1185-1210) for the segment at offset of the segments buffer: the segment
\* and the bytes added.  st holds what the functions read of the state:
\* size, percentage, elapsed_seconds, transferred, initial_offset,
\* current_avg_rate, name and final_update, and display->previous_line
\* when the previous line is shown.
ComponentFunction(function, segment, offset, st) ==
    CASE function = "progress" ->
           pv__format_segmentcontent(
               IF st.size > 0
               THEN pv__format_progress_knownsize(segment.width, st.percentage)
               ELSE pv__format_progress_unknownsize(segment.width, st.percentage),
               segment, offset)
      [] function = "timer" ->
           pv__format_segmentcontent(Clock(st.elapsed_seconds \div USEC_PER_SEC),
                                     segment, offset)
      [] function = "eta" ->
           IF st.size < 1 THEN [segment |-> segment, content |-> <<>>]
           ELSE LET eta == pv__seconds_remaining(st.transferred - st.initial_offset,
                                                 st.size - st.initial_offset,
                                                 st.current_avg_rate)
                    content == <<"E", "T", "A", " ">> \o Clock(eta)
                IN  pv__format_segmentcontent(
                        IF st.final_update THEN Repeat(" ", Len(content)) ELSE content,
                        segment, offset)
      [] function = "name" ->
           LET chosen == IF segment.chosen_size < 1 THEN 9 ELSE segment.chosen_size
               field_width == Min(chosen, 500)
               shown == SubSeq(st.name, 1, Min(Len(st.name), 500))
           IN  pv__format_segmentcontent(
                   IF st.name = <<>> THEN <<>>
                   ELSE PadLeft(shown, field_width, " ") \o <<":">>,
                   segment, offset)
      [] function = "previous_line" ->
           pv__format_previous_line(st.previous_line, segment, offset)

\* Whether the segment is rendered in the first pass (display.c:1645-1647).
FixedWidth(segment) ==
    ~(format_component[segment.type].dynamic /\ segment.chosen_size = 0)

\* A call of a component's function in pv_format, display.c:1656-1658 and
\* 1704-1706, for segment idx: the offset passed, display_segment_offset,
\* and the number of bytes returned.
FormatterCall(idx, acc, bytes_added) ==
    [idx |-> idx, offset |-> Len(acc.display_segments), returned |-> bytes_added]

\* The first pass of pv_format, display.c:1632-1667, from segment idx on.
RECURSIVE FirstPass(_, _, _)
FirstPass(acc, idx, st) ==
    IF idx > Len(acc.format) THEN acc
    ELSE LET segment == acc.format[idx]
         IN  IF segment.type = -1
             THEN FirstPass([acc EXCEPT !.static_portion_width = @ + segment.width],
                            idx + 1, st)
             ELSE IF ~FixedWidth(segment)
             THEN FirstPass([acc EXCEPT !.dynamic_segment_count = @ + 1], idx + 1, st)
             ELSE LET r == ComponentFunction(
                               format_component[segment.type].function,
                               [segment EXCEPT !.width = segment.chosen_size],
                               Len(acc.display_segments), st)
                      shown == Len(r.content)
                  IN  FirstPass(
                          [acc EXCEPT
                             !.format[idx] = [r.segment EXCEPT !.width = shown],
                             !.display_segments = @ \o r.content,
                             !.static_portion_width = @ + shown,
                             !.calls = Append(@, FormatterCall(idx, acc, shown))],
                          idx + 1, st)

\* The second pass, display.c:1683-1709.
RECURSIVE SecondPass(_, _, _, _)
SecondPass(acc, idx, dynamic_segment_width, st) ==
    IF idx > Len(acc.format) THEN acc
    ELSE LET segment == acc.format[idx]
         IN  IF segment.type = -1 \/ FixedWidth(segment)
             THEN SecondPass(acc, idx + 1, dynamic_segment_width, st)
             ELSE LET r == ComponentFunction(
                               format_component[segment.type].function,
                               [segment EXCEPT !.width = dynamic_segment_width],
                               Len(acc.display_segments), st)
                  IN  SecondPass(
                          [acc EXCEPT !.format[idx] = r.segment,
                                      !.display_segments = @ \o r.content,
                                      !.calls = Append(@, FormatterCall(idx, acc,
                                                                        Len(r.content)))],
                          idx + 1, dynamic_segment_width, st)

\* The display buffer filled from the segments, display.c:1715-1744.
RECURSIVE Assemble(_, _, _, _, _)
Assemble(out, idx, format, display_format, display_segments) ==
    IF idx > Len(format) THEN out
    ELSE LET segment == format[idx]
             content_buffer == IF segment.type = -1 THEN display_format
                               ELSE display_segments
         IN  IF segment.bytes = 0 \/ segment.bytes > out.remaining
             THEN Assemble(out, idx + 1, format, display_format, display_segments)
             ELSE Assemble(
                      [display_buffer |-> out.display_buffer
                           \o SubSeq(content_buffer, segment.offset + 1,
                                     segment.offset + segment.bytes),
                       remaining |-> out.remaining - segment.bytes,
                       bytes |-> out.bytes + segment.bytes,
                       width |-> out.width + segment.width],
                      idx + 1, format, display_format, display_segments)

\* control.width - static_portion_width in size_t, display.c:1674: below zero
\* it wraps round.  (SIZE_T_RANGE stands for 2^64; any wrapped value is far
\* beyond the sizes of all the buffers.)
SizeSub(a, b) == IF a >= b THEN a - b ELSE SIZE_T_RANGE - (b - a)

\* The size of the display buffer, display.c:1582-1611: a buffer of less than
\* twice the width is given up for one of 2 * width + 80 bytes and the length
\* of the name.  (The allocation succeeds.)
DisplayBufferSize(d, w, st) ==
    IF d.display_buffer_size > 0 /\ ~(d.display_buffer_size < 2 * w)
    THEN d.display_buffer_size
    ELSE 2 * w + 80 + Len(st.name)

\* The width of each dynamic segment, display.c:1674-1681, after the first
\* pass.
DynamicSegmentWidth(first, w) ==
    IF first.dynamic_segment_count > 1
    THEN SizeSub(w, first.static_portion_width) \div first.dynamic_segment_count
    ELSE SizeSub(w, first.static_portion_width)

\* How far behind the bytes written the segments of the rendered format
\* reach into display_segments.
RECURSIVE ReachBehind(_, _)
ReachBehind(rendered, idx) ==
    IF idx > Len(rendered.format) THEN 0
    ELSE LET segment == rendered.format[idx]
             behind == IF segment.type = -1 THEN 0
                       ELSE segment.offset + segment.bytes - Len(rendered.display_segments)
             rest == ReachBehind(rendered, idx + 1)
         IN  IF behind > rest THEN behind ELSE rest

\* display_segments, display.c:1544, is an array on the stack of which only
\* the first byte is set (display.c:1552): behind the bytes the functions
\* wrote it holds what the stack held, st.uninitialised.
StackBuffer(rendered, st) ==
    [rendered EXCEPT !.display_segments =
        @ \o Repeat(st.uninitialised, ReachBehind(rendered, 1))]

\* The second pass after the first.
SecondAfter(first, w, st) ==
    StackBuffer(SecondPass(first, 1, DynamicSegmentWidth(first, w), st), st)

\* The two passes, display.c:1625-1709, over the segments of format.
RenderSegments(format, w, st) ==
    SecondAfter(FirstPass([format |-> format, display_segments |-> <<>>,
                           static_portion_width |-> 0,
                           dynamic_segment_count |-> 0, calls |-> <<>>], 1, st),
                w, st)

\* The display buffer filled from the rendered segments, display.c:1715-1744.
AssembleSegments(rendered, display_format, display_buffer_size) ==
    Assemble([display_buffer |-> <<>>, remaining |-> display_buffer_size - 1,
              bytes |-> 0, width |-> 0],
             1, rendered.format, display_format, rendered.display_segments)

\* The number of spaces appended when the line has shrunk, display.c:1753-1762.
SpacesToAdd(d, w, new_display_string_width) ==
    IF new_display_string_width < d.display_string_width /\ w >= d.prev_screen_width
    THEN Min(d.display_string_width - new_display_string_width, 15)
    ELSE 0

\* The end of pv_format, display.c:1746-1776: the shrink padding (pv_strlcat
\* keeps within the buffer) and what is stored in the display.
StoreDisplay(d, w, format, out, display_buffer_size) ==
    [d EXCEPT !.format = format,
              !.format_segment_count = Len(format),
              !.display_buffer =
                  out.display_buffer
                  \o Repeat(" ", Min(SpacesToAdd(d, w, out.width),
                                     display_buffer_size - 1 - Len(out.display_buffer))),
              !.display_buffer_size = display_buffer_size,
              !.display_string_bytes = out.bytes + SpacesToAdd(d, w, out.width),
              !.display_string_width = out.width + SpacesToAdd(d, w, out.width),
              !.prev_screen_width = w]

\* A pv__format_timer that toggles display->showing_timer.
ShowingTimerToggled(showing_timer, format) ==
    showing_timer # (\E i \in 1..Len(format) :
                        /\ format[i].type # -1
                        /\ format_component[format[i].type].function = "timer")

\* display->showing_timer after the functions of the segments of format have
\* run: pv__format_timer sets it (display.c:796).
ShowingTimer(showing_timer, format) ==
    \/ showing_timer
    \/ \E i \in 1..Len(format) :
          /\ format[i].type # -1
          /\ format_component[format[i].type].function = "timer"

\* pv__format_init clears display->showing_timer before it runs the
\* functions of the components (display.c:1349).
Reinitialised(d) == [d EXCEPT !.showing_timer = FALSE]

\* pv_format with the segments rendered.
FormatRendered(d, display_format, w, rendered, display_buffer_size) ==
    [StoreDisplay(d, w, rendered.format,
                  AssembleSegments(rendered, display_format, display_buffer_size),
                  display_buffer_size)
        EXCEPT !.showing_timer = ShowingTimer(d.showing_timer, rendered.format)]

\* A formatter that compiles the format once and keeps it.
pv_format_compiled_once(d, display_format, w, reinitialise, st) ==
    FormatRendered(d, display_format, w,
                   RenderSegments(IF d.format = <<>> THEN pv__format_init(display_format)
                                  ELSE d.format, w, st),
                   DisplayBufferSize(d, w, st))

\* pv_format in non-numeric mode, display.c:1541-1777, for the display d, the
\* format string display_format and the terminal width w; st as for
\* ComponentFunction.
pv_format(d, display_format, w, reinitialise, st) ==
    FormatRendered(IF reinitialise THEN Reinitialised(d) ELSE d, display_format, w,
                   RenderSegments(IF reinitialise THEN pv__format_init(display_format)
                                  ELSE d.format, w, st),
                   DisplayBufferSize(d, w, st))

\* The format strings studied: the bar alone; timer, bar and ETA; name and
\* timer; two bars sharing the width; a bar of a chosen size and a "%%".
Formats ==
    { <<"%", "p">>,
      <<"%", "t", " ", "%", "p", " ", "%", "e">>,
      <<"%", "N", " ", "%", "{", "t", "i", "m", "e", "r", "}">>,
      <<"%", "p", "|", "%", "{", "p", "r", "o", "g", "r", "e", "s", "s", "}">>,
      <<"%", "8", "p", "%", "%">> }

\* No name (a null pointer), or a name.
Names == {<<>>, <<"i", "n">>}

\* The terminal widths: narrower than the timer, narrower than timer and
\* ETA together, and wide enough for everything.
Widths == {6, 20, MaxWidth}

\* pv_format is studied on its own, through the display ticks.
InitFormat ==
    /\ pc = "format"
    /\ MainLoopIdle /\ SignalIdle /\ CursorIdle /\ WatchIdle /\ ResizeIdle /\ SkipIdle /\ ExtIdle
    /\ size \in 0..MaxSize
    /\ total_written = 0
    /\ trigger_exit = 0 /\ exit_status = {} /\ output_produced = FALSE
    /\ calc = InitialCalc(2) /\ elapsed_seconds = 0 /\ bits = FALSE
    /\ display = InitialDisplay
    /\ width \in Widths
    /\ format_string \in Formats
    /\ name \in Names
    /\ reparse_display = 1

\* The time between two display ticks: control.interval, a second.
DisplayInterval == USEC_PER_SEC

\* One display tick of pv_main_loop, loop.c:490-516: the transfer has moved
\* on and an interval has passed, a resize signal may have changed the
\* width, and pv_display (display.c:1786-1830) calls
\* pv_calculate_transfer_rate and pv_format; the tick with final = true is
\* the last.
DisplayTick ==
    /\ pc = "format"
    /\ hist.calls < MaxFrames
    /\ \E final \in BOOLEAN, screen_width \in Widths :
        \E tw \in TotalInputs(elapsed_seconds + DisplayInterval) :
            LET r == pv_calculate_transfer_rate(calc, tw,
                                                elapsed_seconds + DisplayInterval,
                                                size, initial_offset, final)
                st == [size |-> size, percentage |-> r.calc.percentage,
                       elapsed_seconds |-> r.elapsed_seconds,
                       transferred |-> tw, initial_offset |-> initial_offset,
                       current_avg_rate |-> r.calc.current_avg_rate,
                       name |-> name, final_update |-> final]
            IN  /\ total_written' = tw
                /\ calc' = r.calc
                /\ elapsed_seconds' = r.elapsed_seconds
                /\ width' = screen_width
                /\ display' = pv_format(display, format_string, screen_width,
                                        reparse_display # 0, st)
                /\ pc' = IF final THEN "done" ELSE "format"
    /\ reparse_display' = 0
    /\ hist' = [hist EXCEPT !.calls = @ + 1,
                            !.compiled = IF reparse_display # 0 THEN format_string ELSE @,
                            !.reparse_requests = 0,
                            !.recompiled =
                                IF hist.calls > 0 /\ hist.compiled = format_string
                                THEN hist.reparse_requests ELSE 0]
    /\ UNCHANGED <<extVars, winVars, skipVars, fileVars, ctlVars, loopVars, buffer_size, read_position,
                   write_position, transfer_buffer, written_but_not_consumed,
                   splice_used, splice_failed_fd, flagVars, envVars, watchVars,
                   bits, format_string, name, posVars, pidVars, sigVars, crsVars>>

\* PV_ADDFORMAT, state.c:160-164: y is appended to the default format when
\* x is set, after a space when the format is not empty.
PV_ADDFORMAT(default_format, x, y) ==
    IF x
    THEN (IF default_format # <<>> THEN default_format \o <<" ">> ELSE default_format) \o y
    ELSE default_format

\* pv_state_set_format, state.c:156-196, for the components the formatter
\* is studied with: the default format in the order name, timer, progress,
\* ETA.
pv_state_set_format(progress, timer, eta, name_given) ==
    PV_ADDFORMAT(PV_ADDFORMAT(PV_ADDFORMAT(PV_ADDFORMAT(<<>>, name_given, <<"%", "N">>),
                                           timer, <<"%", "t">>),
                              progress, <<"%", "p">>),
                 eta, <<"%", "e">>)

\* The messages of pv -R studied: the old-style display options, a name or
\* none, a format string or none, a size or none.  Their rate_limit,
\* buffer_size, interval, width and height are 0, which leaves those options
\* as they are (remote.c:292-303).
RemoteDisplayMsgs ==
    [progress : BOOLEAN, timer : {TRUE}, eta : {FALSE}, name : Names,
     format : {<<>>}, size : {0, MaxSize}]
    \cup [progress : {TRUE}, timer : {TRUE}, eta : {TRUE}, name : {<<>>},
          format : {<<>>}, size : {0}]
    \cup [progress : {FALSE}, timer : {FALSE}, eta : {FALSE}, name : {<<>>},
          format : {<<"%", "8", "p", "%", "%">>}, size : {0}]

\* remote.c:279-306: the format in force after the message: its format
\* string when it has one, or else the default format of its options.
RemoteDisplayFormat(msg) ==
    IF msg.format # <<>> THEN msg.format
    ELSE pv_state_set_format(msg.progress, msg.timer, msg.eta, msg.name # <<>>)

\* pv_remote_check, remote.c:263-307, when a message is there: the format
\* string and the name are dropped, pv_state_set_format builds the default
\* format, sets the name and asks for a reparse, the size is replaced when
\* the message has one, and the message's format string is set when it has
\* one.  format_string stands for the format in force, the format string or
\* else the default format.
RemoteFormat ==
    /\ pc = "format"
    /\ \E msg \in RemoteDisplayMsgs :
         \* one message, which may be sent again before the next frame
         /\ \/ hist.reformats < MaxRemote
            \/ /\ hist.reparse_requests \in 1..(MaxReformats - 1)
               /\ msg = hist.remote_msg
         /\ format_string' = RemoteDisplayFormat(msg)
         /\ name' = msg.name
         /\ size' = RemoteApply(size, msg.size)
         /\ hist' = [hist EXCEPT !.reformats = @ + 1,
                                 !.remote_msg = msg,
                                 !.remote_at = hist.calls,
                                 !.replaced_format = format_string,
                                 !.reparse_requests = @ + 1]
    /\ reparse_display' = 1
    /\ UNCHANGED <<extVars, winVars, skipVars, pc, fileVars, rate_limit, stop_at_size, linemode, no_splice,
                   target_buffer_size, no_display, show_stats, wait, delay_start_small,
                   loopVars, xferVars, flagVars, envVars,
                   watchVars, calcVars, display, width, posVars, pidVars, sigVars, crsVars>>

NextFormat == DisplayTick \/ RemoteFormat

SpecFormat == InitFormat /\ [][NextFormat]_vars

(***************************************************************************)
(* The parser of the format string on its own, display.c:1381-1520.  The   *)
(* format string of -F is a copy on the heap (pv_strdup, state.c:329) of   *)
(* strlen + 1 bytes; what lies behind its terminator is not the string's,  *)
(* and a read there finds any byte.                                        *)
(***************************************************************************)

\* The characters of the format strings studied: the percent sign, a known
\* and an unknown letter, the braces and a digit.
FormatAlphabet == {"%", "p", "q", "{", "}", "5"}

\* The bytes found behind the terminator.
BeyondAlphabet == {NUL, "q", "%"}

\* The strings of up to n characters of an alphabet.
StringsUpTo(alphabet, n) == UNION {[1..k -> alphabet] : k \in 0..n}

\* The memory display_format points into: the string, its terminator and
\* the bytes behind it.
FormatMemory(str, behind) == str \o <<NUL>> \o behind

InitParse ==
    /\ pc = "fparse"
    /\ MainLoopIdle /\ SignalIdle /\ CursorIdle /\ WatchIdle /\ ResizeIdle /\ SkipIdle
    /\ WaitIdle /\ ErrIdle /\ RowIdle /\ LineIdle /\ RemoteIdle
    /\ size = 0 /\ total_written = 0
    /\ trigger_exit = 0 /\ exit_status = {} /\ output_produced = FALSE
    /\ calc = InitialCalc(1) /\ elapsed_seconds = 0 /\ bits = FALSE
    /\ display = InitialDisplay /\ width = 0 /\ name = <<>> /\ reparse_display = 1
    /\ format_string \in StringsUpTo(FormatAlphabet, MaxFormatLen)
    /\ beyond \in [1..MaxBeyond -> BeyondAlphabet]
    /\ scan = 0

\* What no step of the parser changes.
ParseUnchanged ==
    UNCHANGED <<fileVars, ctlVars, loopVars, xferVars, flagVars, envVars, watchVars,
                calcVars, width, format_string, name, reparse_display, posVars,
                pidVars, sigVars, crsVars, winVars, skipVars, waitVars, errVars,
                rowVars, lineVars, remoteVars, beyond>>

\* The loop of pv__format_init goes on, display.c:1381: the byte at strpos
\* is not the terminator and display->format[] is not full.
ParseGoesOn ==
    /\ CharAt(FormatMemory(format_string, beyond), scan) # NUL
    /\ Len(display.format) < PV_FORMAT_ARRAY_MAX

\* One pass of the loop, display.c:1381-1520.
ParsePass ==
    /\ pc = "fparse"
    /\ ParseGoesOn
    /\ LET step == FormatInitStep(FormatMemory(format_string, beyond), scan)
       IN  /\ display' = [display EXCEPT !.format = Append(@, step.segment),
                                         !.format_segment_count = @ + 1]
           /\ scan' = step.next
           /\ hist' = [hist EXCEPT !.passes = Append(@, [from |-> scan,
                                                          next |-> step.next]),
                                   !.read_upto = IF step.last_read > @
                                                 THEN step.last_read ELSE @]
    /\ UNCHANGED pc
    /\ ParseUnchanged

\* The loop ends, display.c:1381: the byte at strpos is read and is the
\* terminator, or display->format[] is full.
ParseEnd ==
    /\ pc = "fparse"
    /\ ~ParseGoesOn
    /\ pc' = "fparsed"
    /\ hist' = [hist EXCEPT !.read_upto = IF scan > @ THEN scan ELSE @]
    /\ UNCHANGED <<display, scan>>
    /\ ParseUnchanged

NextParse == ParsePass \/ ParseEnd

SpecParse == InitParse /\ [][NextParse]_vars

(***************************************************************************)
(* The formatter with the previous line, "%L", a dynamic component whose   *)
(* function leaves the segment alone when it shows nothing.                *)
(***************************************************************************)

\* The format strings: the previous line alone, and after the timer.
LineFormats ==
    { <<"%", "L">>,
      <<"%", "t", " ", "%", "L">>,
      <<"%", "t", " ", "%", "{", "p", "r", "e", "v", "i", "o", "u", "s", "-",
        "l", "i", "n", "e", "}">> }

\* The terminal widths: narrower than the timer, as wide as the timer and
\* the space after it, and wider.
LineWidths == {6, 8, 20}

\* The last line written: none yet, a short line, a line with a tab.
PreviousLines == {<<>>, <<"a", "b">>, <<"a", "\t", "b">>}

\* What a byte of the stack that was not set may hold.
StackBytes == {"#", "~"}

InitLine ==
    /\ pc = "pline"
    /\ MainLoopIdle /\ SignalIdle /\ CursorIdle /\ WatchIdle /\ ResizeIdle /\ SkipIdle /\ ExtIdle
    /\ size = 0
    /\ total_written = 0
    /\ trigger_exit = 0 /\ exit_status = {} /\ output_produced = FALSE
    /\ calc = InitialCalc(2) /\ elapsed_seconds = 0 /\ bits = FALSE
    /\ display = InitialDisplay
    /\ width \in LineWidths
    /\ format_string \in LineFormats
    /\ name = <<>>
    /\ reparse_display = 1

\* One display tick of pv_main_loop, loop.c:490-516, as DisplayTick: a
\* resize may have changed the width, the transfer has written a line, and
\* pv_display (display.c:1786-1830) calls pv_calculate_transfer_rate and
\* pv_format, whose array display_segments lies on the stack.
LineTick ==
    /\ pc = "pline"
    /\ hist.calls < MaxFrames
    /\ \E final \in BOOLEAN, screen_width \in LineWidths, line \in PreviousLines,
          junk \in StackBytes :
        \E tw \in TotalInputs(elapsed_seconds + DisplayInterval) :
            LET r == pv_calculate_transfer_rate(calc, tw,
                                                elapsed_seconds + DisplayInterval,
                                                size, initial_offset, final)
                st == [size |-> size, percentage |-> r.calc.percentage,
                       elapsed_seconds |-> r.elapsed_seconds,
                       transferred |-> tw, initial_offset |-> initial_offset,
                       current_avg_rate |-> r.calc.current_avg_rate,
                       name |-> name, final_update |-> final,
                       previous_line |-> line, uninitialised |-> junk]
            IN  /\ total_written' = tw
                /\ calc' = r.calc
                /\ elapsed_seconds' = r.elapsed_seconds
                /\ width' = screen_width
                /\ display' = pv_format(display, format_string, screen_width,
                                        reparse_display # 0, st)
                /\ pc' = IF final THEN "plined" ELSE "pline"
                /\ hist' = [hist EXCEPT
                               !.calls = @ + 1,
                               !.format_calls =
                                   RenderSegments(IF reparse_display # 0
                                                  THEN pv__format_init(format_string)
                                                  ELSE display.format,
                                                  screen_width, st).calls,
                               !.stack_byte = junk]
    /\ reparse_display' = 0
    /\ UNCHANGED <<extVars, winVars, skipVars, fileVars, ctlVars, loopVars, buffer_size, read_position,
                   write_position, transfer_buffer, written_but_not_consumed,
                   splice_used, splice_failed_fd, flagVars, envVars, watchVars,
                   bits, format_string, name, posVars, pidVars, sigVars, crsVars>>

NextLine == LineTick

SpecLine == InitLine /\ [][NextLine]_vars

(***************************************************************************)
(* The skipping of read errors in the read phase of pv_transfer (spec      *)
(* section 4.4, step 2); the fields are those of pv-internal.h:321-351.    *)
(***************************************************************************)

\* The largest adaptive skip, 1 MiB.
SKIP_BLOCK_MAX == 1048576

RECURSIVE Pow2(_)
Pow2(n) == IF n <= 0 THEN 1 ELSE 2 * Pow2(n - 1)

\* An adaptive skip that does not grow.
SkipAmountSingle(block, errors) == IF block > 0 THEN block ELSE 1

\* The bytes to skip after the errors-th failed read in a row:
\* error_skip_block when it is set, or else 1 byte doubled with each
\* consecutive failure, up to 1 MiB.
SkipAmount(block, errors) ==
    IF block > 0 THEN block ELSE Min(Pow2(errors - 1), SKIP_BLOCK_MAX)

\* The skipping state on entry to the read phase (pv-internal.h:327-333):
\* when the active descriptor is not last_read_skip_fd, the count and the
\* warning flag start afresh for the new descriptor.
SkipStateFor(fd) ==
    IF fd # last_read_skip_fd
    THEN [read_errors_in_a_row |-> 0, read_error_warning_shown |-> FALSE]
    ELSE [read_errors_in_a_row |-> read_errors_in_a_row,
          read_error_warning_shown |-> read_error_warning_shown]

\* Read errors are skipped (skip_errors > 0), with the adaptive strategy or
\* a fixed block; no file is open yet.
InitSkip ==
    /\ pc = "skipopen"
    /\ MainLoopIdle /\ SignalIdle /\ CursorIdle /\ WatchIdle /\ DisplayIdle
    /\ ResizeIdle /\ ExtIdle
    /\ size = 0 /\ total_written = 0
    /\ trigger_exit = 0 /\ exit_status = {} /\ output_produced = FALSE
    /\ skip_errors \in {1, MaxErrors}
    /\ error_skip_block \in {0, 2}
    /\ read_errors_in_a_row = 0 /\ last_read_skip_fd = 0
    /\ read_error_warning_shown = FALSE

\* What stays as it is in every step of the skipping.
SkipUnchanged ==
    UNCHANGED <<files, file_idx, opened, ctlVars, eof_out, final_update, cansend,
                written, lineswritten, target, cur_time, next_ratecheck,
                output_is_pipe, xferVars, flagVars, envVars, watchVars, dispVars,
                posVars, pidVars, sigVars, crsVars, winVars, extVars, skip_errors,
                error_skip_block>>

\* pv_next_file: the first file is opened, or the file after the one that
\* has ended.  The descriptor of the n-th file is n.
SkipOpen ==
    /\ pc \in {"skipopen", "skipread"}
    /\ (pc = "skipread") => (eof_in /\ input_fd < MaxFiles)
    /\ input_fd' = IF input_fd < 0 THEN 1 ELSE input_fd + 1
    /\ in_pos' = 0 /\ eof_in' = FALSE
    /\ pc' = "skipread"
    /\ hist' = [hist EXCEPT !.streak = 0, !.skipped = FALSE]
    /\ UNCHANGED <<read_errors_in_a_row, last_read_skip_fd, read_error_warning_shown>>
    /\ SkipUnchanged

\* The read phase, a read that succeeds: the count of failures in a row
\* returns to 0; a return of 0 bytes is the end of the file.
SkipReadOk ==
    /\ pc = "skipread" /\ ~eof_in
    /\ \E n \in 0..1 :
         /\ n > 0 => hist.oks < MaxOks
         /\ in_pos' = in_pos + n
         /\ eof_in' = (n = 0)
         /\ hist' = [hist EXCEPT !.oks = @ + n, !.streak = 0, !.skipped = FALSE]
    /\ last_read_skip_fd' = input_fd
    /\ read_errors_in_a_row' = 0
    /\ read_error_warning_shown' = SkipStateFor(input_fd).read_error_warning_shown
    /\ UNCHANGED <<pc, input_fd>>
    /\ SkipUnchanged

\* The read phase, a read that fails with an error other than EINTR or
\* EAGAIN: the warning is logged unless it was for this descriptor, the
\* failure is counted, and the input is advanced by the skip; once the count
\* exceeds skip_errors the file is given up.
SkipReadFail ==
    /\ pc = "skipread" /\ ~eof_in
    /\ SkipStateFor(input_fd).read_errors_in_a_row < MaxErrors
    /\ LET st == SkipStateFor(input_fd)
           errors == st.read_errors_in_a_row + 1
           give_up == errors > skip_errors
           amount == SkipAmount(error_skip_block, errors)
       IN  /\ last_read_skip_fd' = input_fd
           /\ read_error_warning_shown' = TRUE
           /\ read_errors_in_a_row' = errors
           /\ in_pos' = IF give_up THEN in_pos ELSE in_pos + amount
           /\ eof_in' = give_up
           /\ hist' = [hist EXCEPT
                  !.streak = @ + 1,
                  !.last_skip = IF give_up THEN 0 ELSE amount,
                  !.skipped = ~give_up,
                  !.warned = IF st.read_error_warning_shown THEN @
                             ELSE Append(@, input_fd)]
    /\ UNCHANGED <<pc, input_fd>>
    /\ SkipUnchanged

NextSkip == SkipOpen \/ SkipReadOk \/ SkipReadFail

SpecSkip == InitSkip /\ [][NextSkip]_vars

(***************************************************************************)
(* The resize of the display, loop.c:489-516, with the SIGWINCH handler of *)
(* signal.c.  Standard error is a terminal whose width pv_screensize can   *)
(* read, and the widths are below PVDISPLAY_WIDTH_MAX.                     *)
(***************************************************************************)

\* The formats of the frames: the bar alone, and the timer.
ResizeFormats == { <<"%", "p">>, <<"%", "t">> }

\* The display part of a tick is about to test terminal_resized; the width
\* is the terminal's unless it was set manually.
InitResize ==
    /\ pc = "resized"
    /\ MainLoopIdle /\ SignalIdle /\ CursorIdle /\ WatchIdle /\ SkipIdle /\ ExtIdle
    /\ size = 0 /\ total_written = 0
    /\ trigger_exit = 0 /\ exit_status = {} /\ output_produced = FALSE
    /\ calc = InitialCalc(2) /\ elapsed_seconds = 0 /\ bits = FALSE
    /\ display = InitialDisplay
    /\ format_string \in ResizeFormats /\ name = <<>> /\ reparse_display = 1
    /\ terminal_resized = 0 /\ new_width = 0
    /\ terminal_width \in Widths
    /\ width_set_manually \in BOOLEAN
    /\ width \in (IF width_set_manually THEN Widths ELSE {terminal_width})

\* What stays as it is in every step of the resize.
ResizeUnchanged ==
    UNCHANGED <<fileVars, ctlVars, loopVars, buffer_size, read_position,
                write_position, transfer_buffer, written_but_not_consumed,
                splice_used, splice_failed_fd, flagVars, envVars, watchVars,
                bits, format_string, name, posVars, pidVars, sigVars, crsVars,
                skipVars, extVars, width_set_manually>>

\* pv_sig_winch, signal.c:150-154: the terminal has another width and the
\* handler sets the flag (pv_sig_newsize there, flags.terminal_resized in
\* loop.c), wherever the loop is.
SigWinch ==
    /\ pc \in {"resized", "clear", "screensize", "setwidth", "display"}
    /\ hist.winches < MaxWinch
    /\ terminal_width' \in Widths \ {terminal_width}
    /\ terminal_resized' = 1
    /\ hist' = [hist EXCEPT !.winches = @ + 1, !.winch_since_frame = TRUE,
                            !.width_stale = TRUE, !.tested_since_winch = FALSE]
    /\ UNCHANGED <<pc, total_written, calc, elapsed_seconds, display, width,
                   reparse_display, new_width>>
    /\ ResizeUnchanged

\* loop.c:490: the test of the flag.
ResizeTest ==
    /\ pc = "resized"
    /\ hist.calls < MaxFrames
    /\ pc' = IF terminal_resized = 1 THEN "clear" ELSE "display"
    /\ hist' = [hist EXCEPT !.tested_since_winch = TRUE]
    /\ UNCHANGED <<total_written, calc, elapsed_seconds, display, width,
                   reparse_display, terminal_resized, terminal_width, new_width>>
    /\ ResizeUnchanged

\* loop.c:493: the flag is cleared.
ResizeClear ==
    /\ pc = "clear"
    /\ terminal_resized' = 0
    /\ pc' = "screensize"
    /\ UNCHANGED <<total_written, calc, elapsed_seconds, display, width,
                   reparse_display, terminal_width, new_width, hist>>
    /\ ResizeUnchanged

\* loop.c:495-497 and pv_screensize, display.c:153-167: the ioctl reads the
\* terminal's width into new_width.
ResizeRead ==
    /\ pc = "screensize"
    /\ new_width' = terminal_width
    /\ pc' = "setwidth"
    /\ hist' = [hist EXCEPT !.width_stale = FALSE]
    /\ UNCHANGED <<total_written, calc, elapsed_seconds, display, width,
                   reparse_display, terminal_resized, terminal_width>>
    /\ ResizeUnchanged

\* loop.c:499-502: the width read replaces control.width unless that was
\* set manually.
ResizeStore ==
    /\ pc = "setwidth"
    /\ width' = IF width_set_manually THEN width ELSE new_width
    /\ pc' = "display"
    /\ UNCHANGED <<total_written, calc, elapsed_seconds, display,
                   reparse_display, terminal_resized, terminal_width, new_width, hist>>
    /\ ResizeUnchanged

\* loop.c:506-515 and pv_display, display.c:1786-1830: the frame of the
\* tick, an interval after the last, nothing having been transferred.
ResizeDisplay ==
    /\ pc = "display"
    /\ LET r == pv_calculate_transfer_rate(calc, total_written,
                                           elapsed_seconds + DisplayInterval,
                                           size, initial_offset, FALSE)
           st == [size |-> size, percentage |-> r.calc.percentage,
                  elapsed_seconds |-> r.elapsed_seconds,
                  transferred |-> total_written, initial_offset |-> initial_offset,
                  current_avg_rate |-> r.calc.current_avg_rate,
                  name |-> name, final_update |-> FALSE]
       IN  /\ calc' = r.calc
           /\ elapsed_seconds' = r.elapsed_seconds
           /\ display' = pv_format(display, format_string, width,
                                   reparse_display # 0, st)
    /\ reparse_display' = 0
    /\ pc' = "resized"
    /\ hist' = [hist EXCEPT !.calls = @ + 1, !.winch_since_frame = FALSE]
    /\ UNCHANGED <<total_written, width, terminal_resized, terminal_width, new_width>>
    /\ ResizeUnchanged

NextResize ==
    \/ SigWinch \/ ResizeTest \/ ResizeClear \/ ResizeRead \/ ResizeStore
    \/ ResizeDisplay

SpecResize == InitResize /\ [][NextResize]_vars

(***************************************************************************)
(* The elapsed time of the display, loop.c:387-487, with the SIGTSTP and   *)
(* SIGCONT handlers of signal.c and the timespec arithmetic of             *)
(* elapsedtime.c.  The clock moves in steps of half a second.              *)
(***************************************************************************)

ClockStep == NSEC_PER_SEC \div 2

\* The remainder of a division that truncates towards zero.
TruncRem(n, d) == n - TruncDiv(n, d) * d

\* elapsedtime.c:95-121.
pv_elapsedtime_add(first_time, second_time) ==
    [tv_sec |-> first_time.tv_sec + second_time.tv_sec
                + TruncDiv(first_time.tv_nsec + second_time.tv_nsec, NSEC_PER_SEC),
     tv_nsec |-> TruncRem(first_time.tv_nsec + second_time.tv_nsec, NSEC_PER_SEC)]

\* elapsedtime.c:149-180.
pv_elapsedtime_subtract(first_time, second_time) ==
    LET nanoseconds == first_time.tv_nsec - second_time.tv_nsec
        seconds == first_time.tv_sec - second_time.tv_sec
                   + TruncDiv(nanoseconds, NSEC_PER_SEC)
        rest == TruncRem(nanoseconds, NSEC_PER_SEC)
    IN  IF rest < 0
        THEN [tv_sec |-> seconds - 1, tv_nsec |-> NSEC_PER_SEC + rest]
        ELSE [tv_sec |-> seconds, tv_nsec |-> rest]

\* elapsedtime.c:185-198, in microseconds.
pv_elapsedtime_seconds(elapsed_time) ==
    elapsed_time.tv_sec * USEC_PER_SEC
    + TruncDiv(elapsed_time.tv_nsec, NSEC_PER_SEC \div USEC_PER_SEC)

\* The clock when pv_main_loop starts: CLOCK_MONOTONIC counts from the boot
\* of the machine, so its seconds are not zero.
BootTime == [tv_sec |-> 1, tv_nsec |-> 0]

\* loop.c:129-132 and signal.c:177-178: start_time is the clock at the
\* start, no SIGTSTP time is recorded and toffset is zero.
InitTime ==
    /\ pc = "clock"
    /\ MainLoopIdle /\ WatchIdle /\ ResizeIdle /\ SkipIdle /\ ExtIdle /\ DisplayIdle /\ CursorIdle
    /\ size = 0 /\ total_written = 0
    /\ trigger_exit = 0 /\ exit_status = {} /\ output_produced = FALSE
    /\ clock = BootTime /\ start_time = BootTime /\ loop_cur_time = BootTime
    /\ init_time = ZeroTime /\ tstp_time = ZeroTime /\ toffset = ZeroTime
    /\ stopped = FALSE

\* What stays as it is in every step of the timing.
TimeUnchanged ==
    UNCHANGED <<extVars, winVars, skipVars, fileVars, ctlVars, loopVars, xferVars, flagVars, envVars, watchVars,
                calc, bits, fmtVars, posVars, pidVars, crsVars>>

\* Time passes, whether the process runs or is stopped.
ClockTick ==
    /\ pc \in {"clock", "gate", "addsec", "addnsec"}
    /\ clock.tv_sec < MaxSeconds
    /\ clock' = pv_elapsedtime_add(clock, [tv_sec |-> 0, tv_nsec |-> ClockStep])
    /\ TimeUnchanged
    /\ UNCHANGED <<extVars, winVars, skipVars, pc, elapsed_seconds, start_time, loop_cur_time, init_time,
                   tstp_time, toffset, stopped, hist>>

\* loop.c:387-388: pv_elapsedtime_read(&cur_time).
TimeRead ==
    /\ pc = "clock" /\ ~stopped
    /\ hist.frames < MaxFrames
    /\ loop_cur_time' = clock
    /\ hist' = [hist EXCEPT !.stopped_at_read = hist.stopped_total]
    /\ pc' = "gate"
    /\ TimeUnchanged
    /\ UNCHANGED <<extVars, winVars, skipVars, elapsed_seconds, clock, start_time, init_time, tstp_time, toffset,
                   stopped>>

\* loop.c:395-471: the tick goes round again without a display, or goes on
\* to the display; pv_elapsedtime_add (line 478) has then read start_time
\* into its sums.
TimeGate ==
    /\ pc = "gate" /\ ~stopped
    /\ \/ /\ pc' = "clock"
          /\ UNCHANGED init_time
       \/ /\ pc' = "addsec"
          /\ init_time' = start_time
    /\ TimeUnchanged
    /\ UNCHANGED <<extVars, winVars, skipVars, elapsed_seconds, clock, start_time, loop_cur_time, tstp_time,
                   toffset, stopped, hist>>

\* elapsedtime.c:112: seconds += second_time->tv_sec, of toffset.
TimeAddSec ==
    /\ pc = "addsec" /\ ~stopped
    /\ init_time' = [init_time EXCEPT !.tv_sec = @ + toffset.tv_sec]
    /\ hist' = [hist EXCEPT !.toffset_read.tv_sec = toffset.tv_sec]
    /\ pc' = "addnsec"
    /\ TimeUnchanged
    /\ UNCHANGED <<extVars, winVars, skipVars, elapsed_seconds, clock, start_time, loop_cur_time, tstp_time,
                   toffset, stopped>>

\* elapsedtime.c:113-120 and loop.c:480-516: nanoseconds +=
\* second_time->tv_nsec, of toffset; init_time is complete, the elapsed time
\* is cur_time - init_time, and the frame is displayed.
TimeAddNsec ==
    /\ pc = "addnsec" /\ ~stopped
    /\ LET sum == pv_elapsedtime_add(init_time, [tv_sec |-> 0, tv_nsec |-> toffset.tv_nsec])
       IN  /\ init_time' = sum
           /\ elapsed_seconds' =
                  pv_elapsedtime_seconds(pv_elapsedtime_subtract(loop_cur_time, sum))
    /\ hist' = [hist EXCEPT !.toffset_read.tv_nsec = toffset.tv_nsec,
                            !.frames = @ + 1]
    /\ pc' = "clock"
    /\ TimeUnchanged
    /\ UNCHANGED <<extVars, winVars, skipVars, clock, start_time, loop_cur_time, tstp_time, toffset, stopped>>

\* signal.c:90-95, pv_sig_tstp: the time is recorded and the process stops
\* itself, wherever the loop is.
SigTstp ==
    /\ pc \in {"clock", "gate", "addsec", "addnsec"}
    /\ ~stopped
    /\ hist.stops < MaxStops
    /\ tstp_time' = clock
    /\ stopped' = TRUE
    /\ hist' = [hist EXCEPT !.stops = @ + 1]
    /\ TimeUnchanged
    /\ UNCHANGED <<extVars, winVars, skipVars, pc, elapsed_seconds, clock, start_time, loop_cur_time, init_time,
                   toffset>>

\* signal.c:115: a SIGTSTP time is recorded.
TstpRecorded == 0 # tstp_time.tv_sec

\* signal.c:115-127: what pv_sig_cont adds to toffset.
TimeStopped ==
    IF TstpRecorded THEN pv_elapsedtime_subtract(clock, tstp_time) ELSE ZeroTime

\* signal.c:103-128, pv_sig_cont: the process goes on (or was not stopped);
\* the time spent stopped since the recorded SIGTSTP is added to toffset and
\* the record is cleared.
SigCont ==
    /\ pc \in {"clock", "gate", "addsec", "addnsec"}
    /\ hist.conts < MaxConts
    /\ toffset' = pv_elapsedtime_add(toffset, TimeStopped)
    /\ tstp_time' = ZeroTime
    /\ stopped' = FALSE
    /\ hist' = [hist EXCEPT
          !.conts = @ + 1,
          !.toffsets = @ \cup {toffset'},
          !.stopped_total =
              IF stopped
              THEN @ + (clock.tv_sec - tstp_time.tv_sec) * USEC_PER_SEC
                     + (clock.tv_nsec - tstp_time.tv_nsec)
                           \div (NSEC_PER_SEC \div USEC_PER_SEC)
              ELSE @]
    /\ TimeUnchanged
    /\ UNCHANGED <<extVars, winVars, skipVars, pc, elapsed_seconds, clock, start_time, loop_cur_time, init_time>>

NextTime ==
    \/ ClockTick \/ TimeRead \/ TimeGate \/ TimeAddSec \/ TimeAddNsec
    \/ SigTstp \/ SigCont

SpecTime == InitTime /\ [][NextTime]_vars

(***************************************************************************)
(* Wait mode (-W), loop.c:387-471: the part of a tick of pv_main_loop      *)
(* between the transfer and the display, statement by statement where the  *)
(* handlers of SIGTSTP and SIGCONT are detached and attached again, with   *)
(* the handlers of signal.c.  The interval of the display is one second.   *)
(***************************************************************************)

\* state->control.interval, in nanoseconds.
IntervalNsec == NSEC_PER_SEC

\* pv_elapsedtime_compare(first_time, second_time) < 0, elapsedtime.c:65-89.
TimeBefore(first_time, second_time) ==
    \/ first_time.tv_sec < second_time.tv_sec
    \/ /\ first_time.tv_sec = second_time.tv_sec
       /\ first_time.tv_nsec < second_time.tv_nsec

\* pv_elapsedtime_add_nsec, elapsedtime.c:127-142.
pv_elapsedtime_add_nsec(return_time, add_nanoseconds) ==
    pv_elapsedtime_add(return_time, [tv_sec |-> 0, tv_nsec |-> add_nanoseconds])

\* A display that is due at once when the wait is over.
DueAtStart(start) == start

\* loop.c:457-458: the display starts at the next interval.
DueAfterWait(start) == pv_elapsedtime_add_nsec(start, IntervalNsec)

\* pv -W has been started: nothing is open yet.
InitWait ==
    /\ pc = "wopen"
    /\ MainLoopIdle /\ WatchIdle /\ ResizeIdle /\ SkipIdle /\ DisplayIdle /\ CursorIdle
    /\ size = 0 /\ total_written = 0
    /\ trigger_exit = 0 /\ exit_status = {} /\ output_produced = FALSE
    /\ clock = BootTime /\ start_time = ZeroTime /\ loop_cur_time = ZeroTime
    /\ init_time = ZeroTime /\ tstp_time = ZeroTime /\ toffset = ZeroTime
    /\ stopped = FALSE
    /\ WaitIdle /\ ErrIdle /\ ParseIdle /\ RowIdle /\ LineIdle /\ RemoteIdle

\* What no step of the wait changes.
WaitUnchanged ==
    UNCHANGED <<fileVars, rate_limit, size, stop_at_size, no_splice, target_buffer_size,
                no_display, show_stats, delay_start_small, eof_in, eof_out, cansend,
                target, cur_time, next_ratecheck, output_is_pipe, xferVars,
                trigger_exit, pipe_closed, exit_status, envVars, watchVars, calc, bits,
                fmtVars, posVars, pidVars, crsVars, winVars, skipVars, errVars,
                parseVars, rowVars, lineVars, remoteVars, init_time>>

\* loop.c:129-147 with -W, in byte or line mode: the start time and the
\* first next_update, one interval later.
WaitStart ==
    /\ pc = "wopen"
    /\ wait' = TRUE
    /\ linemode' \in BOOLEAN
    /\ start_time' = clock /\ loop_cur_time' = clock
    /\ next_update' = pv_elapsedtime_add_nsec(clock, IntervalNsec)
    /\ pc' = "wxfer"
    /\ WaitUnchanged
    /\ UNCHANGED <<written, lineswritten, final_update, output_produced, elapsed_seconds,
                   clock, tstp_time, toffset, stopped, tstp_caught, cont_caught, hist>>

\* Time passes, whether the process runs or is stopped.
WaitClock ==
    /\ pc # "wopen" /\ pc # "wdone"
    /\ clock.tv_sec < MaxSeconds
    /\ clock' = pv_elapsedtime_add(clock, [tv_sec |-> 0, tv_nsec |-> ClockStep])
    /\ WaitUnchanged
    /\ UNCHANGED <<pc, wait, linemode, written, lineswritten, final_update,
                   output_produced, elapsed_seconds, start_time, loop_cur_time,
                   tstp_time, toffset, stopped, waitVars, hist>>

\* loop.c:214-400: the loop goes on unless the final update is done; the
\* tick writes something or nothing, reads the clock, and at the end of the
\* data sets final_update and makes the display due at once.
WaitTransfer ==
    /\ pc = "wxfer" /\ ~stopped
    /\ IF final_update
       THEN /\ pc' = "wdone"
            /\ UNCHANGED <<written, lineswritten, final_update, loop_cur_time,
                           next_update, hist>>
       ELSE /\ \E n \in 0..1, final \in BOOLEAN :
                /\ written' = n
                /\ lineswritten' = IF linemode THEN n ELSE 0
                /\ final_update' = final
                /\ next_update' = IF final THEN clock ELSE next_update
                /\ hist' = [hist EXCEPT !.wrote = @ \/ n > 0,
                                        !.clearing = FALSE]
            /\ loop_cur_time' = clock
            /\ pc' = "wgate"
    /\ WaitUnchanged
    /\ UNCHANGED <<wait, linemode, output_produced, elapsed_seconds, clock, start_time,
                   tstp_time, toffset, stopped, tstp_caught, cont_caught>>

\* loop.c:427-437: with -W the tick ends here while nothing has been
\* written in it; otherwise wait is cleared.
WaitGate ==
    /\ pc = "wgate" /\ ~stopped
    /\ IF ~wait THEN pc' = "wdue" /\ UNCHANGED <<wait, hist>>
       ELSE IF StillWaiting THEN pc' = "wxfer" /\ UNCHANGED <<wait, hist>>
       ELSE /\ wait' = FALSE
            /\ hist' = [hist EXCEPT !.clearing = TRUE]
            /\ pc' = "wnopause"
    /\ WaitUnchanged
    /\ UNCHANGED <<linemode, written, lineswritten, final_update, output_produced,
                   elapsed_seconds, clock, start_time, loop_cur_time, tstp_time,
                   toffset, stopped, waitVars>>

\* What the statements of loop.c:449-458 leave alone.
WaitBlockUnchanged ==
    /\ WaitUnchanged
    /\ UNCHANGED <<wait, linemode, written, lineswritten, final_update, output_produced,
                   elapsed_seconds, clock, loop_cur_time, tstp_time, stopped, hist>>

\* pv_sig_nopause, signal.c:325-328: SIGTSTP is ignored.
WaitNoPauseTstp ==
    /\ pc = "wnopause" /\ ~stopped
    /\ tstp_caught' = FALSE
    /\ pc' = "wnopause2"
    /\ WaitBlockUnchanged
    /\ UNCHANGED <<start_time, toffset, next_update, cont_caught>>

\* pv_sig_nopause, signal.c:330-333: SIGCONT has its default action.
WaitNoPauseCont ==
    /\ pc = "wnopause2" /\ ~stopped
    /\ cont_caught' = FALSE
    /\ pc' = "wstart"
    /\ WaitBlockUnchanged
    /\ UNCHANGED <<start_time, toffset, next_update, tstp_caught>>

\* loop.c:450: pv_elapsedtime_read(&start_time).
WaitReadStart ==
    /\ pc = "wstart" /\ ~stopped
    /\ start_time' = clock
    /\ pc' = "wzero"
    /\ WaitBlockUnchanged
    /\ UNCHANGED <<toffset, waitVars>>

\* loop.c:451: pv_elapsedtime_zero(&(state->signal.toffset)).
WaitZeroOffset ==
    /\ pc = "wzero" /\ ~stopped
    /\ toffset' = ZeroTime
    /\ pc' = "wallow"
    /\ WaitBlockUnchanged
    /\ UNCHANGED <<start_time, waitVars>>

\* pv_sig_allowpause, signal.c:343-346: pv_sig_tstp handles SIGTSTP again.
WaitAllowTstp ==
    /\ pc = "wallow" /\ ~stopped
    /\ tstp_caught' = TRUE
    /\ pc' = "wallow2"
    /\ WaitBlockUnchanged
    /\ UNCHANGED <<start_time, toffset, next_update, cont_caught>>

\* pv_sig_allowpause, signal.c:348-351: pv_sig_cont handles SIGCONT again.
WaitAllowCont ==
    /\ pc = "wallow2" /\ ~stopped
    /\ cont_caught' = TRUE
    /\ pc' = "wnext"
    /\ WaitBlockUnchanged
    /\ UNCHANGED <<start_time, toffset, next_update, tstp_caught>>

\* loop.c:457-458: next_update is one interval after the new start time.
WaitNextUpdate ==
    /\ pc = "wnext" /\ ~stopped
    /\ next_update' = DueAfterWait(start_time)
    /\ pc' = "wdue"
    /\ WaitBlockUnchanged
    /\ UNCHANGED <<start_time, toffset, tstp_caught, cont_caught>>

\* loop.c:462-516: the tick ends without a display while next_update is
\* ahead; otherwise next_update moves on by an interval, to the current time
\* at least, the elapsed time is the current time less start_time and
\* toffset, and the frame is displayed.
WaitDisplay ==
    /\ pc = "wdue" /\ ~stopped
    /\ IF TimeBefore(loop_cur_time, next_update)
       THEN UNCHANGED <<next_update, output_produced, elapsed_seconds, hist>>
       ELSE /\ LET later == pv_elapsedtime_add_nsec(next_update, IntervalNsec)
               IN  next_update' = IF TimeBefore(later, loop_cur_time)
                                  THEN loop_cur_time ELSE later
            /\ elapsed_seconds' = pv_elapsedtime_seconds(
                   pv_elapsedtime_subtract(loop_cur_time,
                                           pv_elapsedtime_add(start_time, toffset)))
            /\ output_produced' = TRUE
            /\ hist' = [hist EXCEPT !.frames = @ + 1,
                                    !.frame_while_clearing = @ \/ hist.clearing,
                                    !.first_frame_at =
                                        IF hist.frames = 0 THEN loop_cur_time ELSE @]
    /\ pc' = "wxfer"
    /\ WaitUnchanged
    /\ UNCHANGED <<wait, linemode, written, lineswritten, final_update, clock,
                   start_time, loop_cur_time, tstp_time, toffset, stopped, tstp_caught,
                   cont_caught>>

\* SIGTSTP: pv_sig_tstp (signal.c:90-95) records the time and stops the
\* process; while the signal is ignored nothing happens.
WaitSigTstp ==
    /\ pc # "wopen" /\ pc # "wdone"
    /\ ~stopped
    /\ hist.stops < MaxStops
    /\ tstp_time' = IF tstp_caught THEN clock ELSE tstp_time
    /\ stopped' = tstp_caught
    /\ hist' = [hist EXCEPT !.stops = @ + 1]
    /\ WaitUnchanged
    /\ UNCHANGED <<pc, wait, linemode, written, lineswritten, final_update,
                   output_produced, elapsed_seconds, clock, start_time, loop_cur_time,
                   toffset, waitVars>>

\* SIGCONT: the process goes on if it was stopped; pv_sig_cont
\* (signal.c:103-128) adds the time since the recorded SIGTSTP to toffset
\* and clears the record, unless the signal has its default action.
WaitSigCont ==
    /\ pc # "wopen" /\ pc # "wdone"
    /\ hist.conts < MaxConts
    /\ toffset' = IF cont_caught THEN pv_elapsedtime_add(toffset, TimeStopped)
                  ELSE toffset
    /\ tstp_time' = IF cont_caught THEN ZeroTime ELSE tstp_time
    /\ stopped' = FALSE
    /\ hist' = [hist EXCEPT !.conts = @ + 1, !.toffsets = @ \cup {toffset'}]
    /\ WaitUnchanged
    /\ UNCHANGED <<pc, wait, linemode, written, lineswritten, final_update,
                   output_produced, elapsed_seconds, clock, start_time, loop_cur_time,
                   waitVars>>

NextWait ==
    \/ WaitStart \/ WaitClock \/ WaitTransfer \/ WaitGate
    \/ WaitNoPauseTstp \/ WaitNoPauseCont \/ WaitReadStart \/ WaitZeroOffset
    \/ WaitAllowTstp \/ WaitAllowCont \/ WaitNextUpdate \/ WaitDisplay
    \/ WaitSigTstp \/ WaitSigCont

SpecWait == InitWait /\ [][NextWait]_vars

(***************************************************************************)
(* Standard error in the background, signal.c:69-83, 130-137 and 362-382:  *)
(* pv_sig_ttou, the part of pv_sig_cont that restores stderr, and          *)
(* pv_sig_checkbg, statement by statement.  A handler interrupts           *)
(* pv_sig_checkbg or the other handler between two statements (sa_mask is  *)
(* empty, signal.c:193-196, 212-215), but not itself.                      *)
(***************************************************************************)

STDERR_FILENO == 2

\* The descriptors of the process that the model follows.
Descriptors == STDERR_FILENO .. MaxFd

\* open() and dup() return the lowest descriptor not in use, or -1.
LowestFree(tab) ==
    IF \E fd \in Descriptors : tab[fd] = "free"
    THEN CHOOSE fd \in Descriptors :
             tab[fd] = "free" /\ \A other \in Descriptors : tab[other] = "free" => fd <= other
    ELSE -1

\* dup2(oldfd, newfd): nothing happens unless oldfd is open.
Dup2(tab, oldfd, newfd) ==
    IF oldfd \in Descriptors /\ tab[oldfd] # "free"
    THEN [tab EXCEPT ![newfd] = tab[oldfd]] ELSE tab

\* close(fd).
Close(tab, fd) == IF fd \in Descriptors THEN [tab EXCEPT ![fd] = "free"] ELSE tab

\* close(fd) is given a descriptor that is not open.
ClosesClosed(tab, fd) == fd \in Descriptors /\ tab[fd] = "free"

\* signal.c:78: stderr is saved only when no descriptor is saved yet.
SaveNeeded(old) == -1 = old

\* pv_sig_init, signal.c:176: nothing is saved; stderr is the terminal.
InitStderr ==
    /\ pc = "bgidle"
    /\ MainLoopIdle /\ SignalIdle /\ CursorIdle /\ WatchIdle /\ DisplayIdle
    /\ ResizeIdle /\ SkipIdle /\ WaitIdle /\ ParseIdle /\ RowIdle /\ LineIdle
    /\ RemoteIdle
    /\ size = 0 /\ total_written = 0
    /\ trigger_exit = 0 /\ exit_status = {} /\ output_produced = FALSE
    /\ fdtab = [fd \in Descriptors |-> IF fd = STDERR_FILENO THEN "tty" ELSE "free"]
    /\ old_stderr = -1
    /\ sigstack = <<>>

\* What no step of this part changes.
StderrUnchanged ==
    UNCHANGED <<fileVars, ctlVars, loopVars, xferVars, flagVars, envVars, watchVars,
                dispVars, posVars, pidVars, sigVars, crsVars, winVars, skipVars,
                waitVars, parseVars, rowVars, lineVars, remoteVars>>

\* The record of the run after close(fd) on the table tab.
Closed(h, tab, fd) == [h EXCEPT !.closed_twice = @ \/ ClosesClosed(tab, fd)]

\* pv_sig_checkbg, signal.c:362-382, called by pv_display once per tick: one
\* statement of it, while no handler runs.
CheckBg ==
    /\ sigstack = <<>>
    /\ \/ /\ pc = "bgidle"
          /\ hist.checks < MaxChecks
          /\ pc' = IF -1 = old_stderr THEN "bgidle" ELSE "bgdup2"
          /\ hist' = [hist EXCEPT !.checks = @ + 1]
          /\ UNCHANGED <<fdtab, old_stderr>>
       \/ /\ pc = "bgdup2"
          /\ fdtab' = Dup2(fdtab, old_stderr, STDERR_FILENO)
          /\ pc' = "bgclose"
          /\ UNCHANGED <<old_stderr, hist>>
       \/ /\ pc = "bgclose"
          /\ fdtab' = Close(fdtab, old_stderr)
          /\ hist' = Closed(hist, fdtab, old_stderr)
          /\ pc' = "bgstore"
          /\ UNCHANGED old_stderr
       \/ /\ pc = "bgstore"
          /\ old_stderr' = -1
          /\ pc' = "bgidle"
          /\ UNCHANGED <<fdtab, hist>>
    /\ UNCHANGED sigstack
    /\ StderrUnchanged

\* The handler that runs now, if any.
RunningHandler == IF sigstack = <<>> THEN "none" ELSE sigstack[Len(sigstack)].handler

\* A handler is on the stack.
Handling(handler) == \E i \in 1..Len(sigstack) : sigstack[i].handler = handler

\* A signal arrives and its handler starts, between two statements of
\* whatever runs.
SignalArrives ==
    /\ pc \in {"bgidle", "bgdup2", "bgclose", "bgstore"}
    /\ \E handler \in {"ttou", "cont"} :
          /\ ~Handling(handler)
          /\ hist.delivered[handler] < MaxDeliveries
          /\ sigstack' = Append(sigstack, [handler |-> handler, at |-> "start", fd |-> -1])
          /\ hist' = [hist EXCEPT
                !.delivered[handler] = @ + 1,
                !.interrupted = @ \/ pc # "bgidle" \/ sigstack # <<>>]
    /\ UNCHANGED <<pc, fdtab, old_stderr>>
    /\ StderrUnchanged

\* The stack with the running handler at another statement, or returned.
Goes(at) == [sigstack EXCEPT ![Len(sigstack)].at = at]
Returns == SubSeq(sigstack, 1, Len(sigstack) - 1)

\* pv_sig_ttou, signal.c:69-83: one statement of it.
TtouStep ==
    /\ RunningHandler = "ttou"
    /\ LET frame == sigstack[Len(sigstack)] IN
       \/ /\ frame.at = "start"
          /\ LET fd == LowestFree(fdtab) IN
             IF fd < 0
             THEN sigstack' = Returns /\ UNCHANGED fdtab
             ELSE /\ fdtab' = [fdtab EXCEPT ![fd] = "null"]
                  /\ sigstack' = [sigstack EXCEPT ![Len(sigstack)] =
                                     [frame EXCEPT !.at = "save", !.fd = fd]]
          /\ UNCHANGED <<old_stderr, hist>>
       \/ /\ frame.at = "save"
          /\ IF SaveNeeded(old_stderr)
             THEN LET fd == LowestFree(fdtab) IN
                  /\ old_stderr' = fd
                  /\ fdtab' = IF fd < 0 THEN fdtab
                              ELSE [fdtab EXCEPT ![fd] = fdtab[STDERR_FILENO]]
                  /\ hist' = [hist EXCEPT !.resaved = @ \/ old_stderr # -1]
             ELSE UNCHANGED <<old_stderr, fdtab, hist>>
          /\ sigstack' = Goes("dup2")
       \/ /\ frame.at = "dup2"
          /\ fdtab' = Dup2(fdtab, frame.fd, STDERR_FILENO)
          /\ sigstack' = Goes("close")
          /\ UNCHANGED <<old_stderr, hist>>
       \/ /\ frame.at = "close"
          /\ fdtab' = Close(fdtab, frame.fd)
          /\ hist' = Closed(hist, fdtab, frame.fd)
          /\ sigstack' = Returns
          /\ UNCHANGED old_stderr
    /\ UNCHANGED pc
    /\ StderrUnchanged

\* pv_sig_cont, signal.c:130-137: one statement of the part that restores
\* stderr.
ContStep ==
    /\ RunningHandler = "cont"
    /\ LET frame == sigstack[Len(sigstack)] IN
       \/ /\ frame.at = "start"
          /\ sigstack' = IF old_stderr # -1 THEN Goes("dup2") ELSE Returns
          /\ UNCHANGED <<fdtab, old_stderr, hist>>
       \/ /\ frame.at = "dup2"
          /\ fdtab' = Dup2(fdtab, old_stderr, STDERR_FILENO)
          /\ sigstack' = Goes("close")
          /\ UNCHANGED <<old_stderr, hist>>
       \/ /\ frame.at = "close"
          /\ fdtab' = Close(fdtab, old_stderr)
          /\ hist' = Closed(hist, fdtab, old_stderr)
          /\ sigstack' = Goes("store")
          /\ UNCHANGED old_stderr
       \/ /\ frame.at = "store"
          /\ old_stderr' = -1
          /\ sigstack' = Returns
          /\ UNCHANGED <<fdtab, hist>>
    /\ UNCHANGED pc
    /\ StderrUnchanged

NextStderr == CheckBg \/ SignalArrives \/ TtouStep \/ ContStep

SpecStderr == InitStderr /\ [][NextStderr]_vars

(***************************************************************************)
(* pv_watchfd_loop with its clock and its display, loop.c:655-762.  What   *)
(* a frame shows is the formatter's; here a frame is the call of           *)
(* pv_display, with its final flag and the position it shows.              *)
(***************************************************************************)

\* The sizes of the terminal, columns and rows: within and beyond
\* PVDISPLAY_WIDTH_MAX.
Screens == {<<20, 25>>, <<PVDISPLAY_WIDTH_MAX + 10, 50>>}

\* loop.c:498-500, 737-739, 897-899: the width read is cut to the maximum.
ClampWidth(columns) ==
    IF columns > PVDISPLAY_WIDTH_MAX THEN PVDISPLAY_WIDTH_MAX ELSE columns

\* loop.c:501-502 and 741-742: control.width after a resize in
\* pv_main_loop and pv_watchfd_loop.
WidthAfterResize(set_manually, old_width, columns) ==
    IF set_manually THEN old_width ELSE ClampWidth(columns)

\* loop.c:503-504 and 743-744: control.height after a resize in
\* pv_main_loop and pv_watchfd_loop.
HeightAfterResize(set_manually, old_height, rows) ==
    IF set_manually THEN old_height ELSE rows

\* An update that waits for its time also when the descriptor is gone.
UpdateDueAsPlanned(is_ended, planned, at) == planned

\* loop.c:692-695: the end forces a display update.
UpdateDue(is_ended, planned, at) == IF is_ended THEN at ELSE planned

\* pv -d PID:FD has been started; the descriptor may be closed before the
\* first look at it.
InitFd ==
    /\ pc = "fdopen"
    /\ MainLoopIdle /\ CursorIdle /\ SkipIdle /\ WaitIdle /\ ErrIdle /\ ParseIdle /\ LineIdle
    /\ RemoteIdle
    /\ size = 0 /\ total_written = 0
    /\ trigger_exit = 0 /\ exit_status = {} /\ output_produced = FALSE
    /\ calc = InitialCalc(1) /\ elapsed_seconds = 0 /\ bits = FALSE
    /\ display = InitialDisplay /\ format_string = <<>> /\ name = <<>>
    /\ reparse_display = 1
    /\ clock = BootTime /\ start_time = ZeroTime /\ loop_cur_time = ZeroTime
    /\ init_time = ZeroTime /\ tstp_time = ZeroTime /\ toffset = ZeroTime
    /\ stopped = FALSE
    /\ position \in (-1)..MaxPos
    /\ ended = FALSE /\ first_check = TRUE /\ initial_offset = 0
    /\ terminal_resized = 0 /\ new_width = 0
    /\ \E screen \in Screens :
          terminal_width = screen[1] /\ terminal_height = screen[2]
    /\ width_set_manually \in BOOLEAN /\ height_set_manually \in BOOLEAN
    /\ width = (IF width_set_manually THEN 30 ELSE ClampWidth(terminal_width))
    /\ height = (IF height_set_manually THEN 10 ELSE terminal_height)

\* What no step of the loop changes.
FdUnchanged ==
    UNCHANGED <<fileVars, ctlVars, loopVars, buffer_size, read_position, write_position,
                transfer_buffer, written_but_not_consumed, splice_used,
                splice_failed_fd, line_positions, line_positions_length,
                line_positions_head, last_output_position, pipe_closed, envVars,
                calc, bits, display, format_string, name, reparse_display, crsVars,
                skipVars, errVars, parseVars, lineVars, remoteVars, tstp_caught,
                cont_caught, tstp_time, toffset, stopped, new_width,
                width_set_manually, height_set_manually>>

\* loop.c:655-665: the clock is read, the first update is one interval
\* away, and the loop is entered.
FdStart ==
    /\ pc = "fdopen"
    /\ loop_cur_time' = clock /\ start_time' = clock
    /\ next_update' = pv_elapsedtime_add_nsec(clock, IntervalNsec)
    /\ ended' = FALSE /\ first_check' = TRUE
    /\ pc' = "fdwatch"
    /\ FdUnchanged
    /\ UNCHANGED <<clock, init_time, elapsed_seconds, position, initial_offset,
                   total_written, transferred, trigger_exit, exit_status,
                   output_produced, terminal_resized, terminal_width, terminal_height,
                   width, height, pidVars, hist>>

\* The record of the run after a look at the position.
FdLooked(h, position_now) ==
    IF position_now < 0
    THEN [h EXCEPT !.fd_failed = @ + 1]
    ELSE [h EXCEPT !.fd_reads = @ + 1,
                   !.fd_first_read = IF h.fd_reads = 0 THEN position_now ELSE @,
                   !.fd_last_read = position_now,
                   !.fd_offset_sets = IF first_check THEN @ + 1 ELSE @]

\* The record of the run after a frame.
FdFramed(h, final, shown_position) ==
    [h EXCEPT !.fd_frames = @ + 1,
              !.fd_final_frames = IF final THEN @ + 1 ELSE @,
              !.fd_last_frame = [final |-> final, transferred |-> shown_position]]

\* loop.c:667-749: one pass of the loop.  A signal to exit ends the loop
\* and the function (751-762); otherwise the position is read, the clock
\* is read, and when the update is due the elapsed time is computed, a
\* resize is taken in and pv_display renders a frame.
FdTick ==
    /\ pc = "fdwatch" /\ ~ended
    /\ hist.fd_reads < MaxLooks
    /\ IF trigger_exit = 1
       THEN /\ pc' = "done"
            /\ exit_status' = exit_status \cup {PV_ERROREXIT_SIGNAL}
            /\ retval' = exit_status'
            /\ UNCHANGED <<first_pass, ended, first_check, initial_offset, total_written,
                           transferred, loop_cur_time, next_update, init_time,
                           elapsed_seconds, terminal_resized, width, height,
                           output_produced, hist>>
       ELSE /\ ended' = (position < 0)
            /\ first_check' = IF position < 0 THEN first_check ELSE FALSE
            /\ initial_offset' = IF position >= 0 /\ first_check
                                 THEN position ELSE initial_offset
            /\ transferred' = IF position < 0 THEN transferred ELSE position
            /\ total_written' = IF position < 0 THEN total_written ELSE position
            /\ loop_cur_time' = clock
            /\ IF TimeBefore(clock, UpdateDue(position < 0, next_update, clock))
               THEN /\ next_update' = UpdateDue(position < 0, next_update, clock)
                    /\ hist' = FdLooked(hist, position)
                    /\ UNCHANGED <<init_time, elapsed_seconds, terminal_resized, width,
                                   height, output_produced>>
               ELSE /\ next_update' =
                        (LET planned == pv_elapsedtime_add_nsec(
                                            UpdateDue(position < 0, next_update, clock),
                                            IntervalNsec)
                         IN  IF TimeBefore(planned, clock) THEN clock ELSE planned)
                    /\ init_time' = pv_elapsedtime_add(start_time, toffset)
                    /\ elapsed_seconds' =
                           pv_elapsedtime_seconds(
                               pv_elapsedtime_subtract(clock, init_time'))
                    /\ terminal_resized' = 0
                    /\ width' = IF terminal_resized = 1
                                THEN WidthAfterResize(width_set_manually, width,
                                                      terminal_width)
                                ELSE width
                    /\ height' = IF terminal_resized = 1
                                 THEN HeightAfterResize(height_set_manually, height,
                                                        terminal_height)
                                 ELSE height
                    /\ output_produced' = TRUE
                    /\ hist' = FdFramed(FdLooked(hist, position), position < 0,
                                        transferred')
            /\ UNCHANGED <<pc, exit_status, pidVars>>
    /\ FdUnchanged
    /\ UNCHANGED <<clock, start_time, position, trigger_exit, terminal_width,
                   terminal_height>>

\* loop.c:667 and 751-762: the loop ends once the descriptor is gone, and
\* the function returns.
FdExit ==
    /\ pc = "fdwatch" /\ ended
    /\ exit_status' = IF trigger_exit = 1
                      THEN exit_status \cup {PV_ERROREXIT_SIGNAL} ELSE exit_status
    /\ retval' = exit_status'
    /\ pc' = "done"
    /\ FdUnchanged
    /\ UNCHANGED <<first_pass, clock, start_time, loop_cur_time, next_update, init_time,
                   elapsed_seconds, position, ended, first_check, initial_offset,
                   total_written, transferred, trigger_exit, output_produced,
                   terminal_resized, terminal_width, terminal_height, width, height,
                   hist>>

\* What the processes around pv leave alone.
FdAround ==
    /\ FdUnchanged
    /\ UNCHANGED <<pc, pidVars, start_time, loop_cur_time, next_update, init_time,
                   elapsed_seconds, ended, first_check, initial_offset, total_written,
                   transferred, exit_status, output_produced, width, height, hist>>

\* The watched process reads, writes or seeks on the descriptor, or closes it.
FdWatched ==
    /\ pc = "fdwatch" /\ position >= 0
    /\ position' \in ((-1)..MaxPos) \ {position}
    /\ FdAround
    /\ UNCHANGED <<clock, trigger_exit, terminal_resized, terminal_width, terminal_height>>

\* Time passes: the loop sleeps (loop.c:702) or waits for the processor.
FdClock ==
    /\ pc = "fdwatch"
    /\ clock.tv_sec < MaxSeconds
    /\ clock' = pv_elapsedtime_add(clock, [tv_sec |-> 0, tv_nsec |-> ClockStep])
    /\ FdAround
    /\ UNCHANGED <<position, trigger_exit, terminal_resized, terminal_width,
                   terminal_height>>

\* pv_sig_winch, signal.c:150-154: the terminal has another size and the
\* handler sets the flag.
FdWinch ==
    /\ pc = "fdwatch"
    /\ terminal_resized = 0
    /\ \E screen \in Screens \ {<<terminal_width, terminal_height>>} :
          terminal_width' = screen[1] /\ terminal_height' = screen[2]
    /\ terminal_resized' = 1
    /\ FdAround
    /\ UNCHANGED <<clock, position, trigger_exit>>

\* A signal to exit sets the flag the loop looks at (loop.c:676).
FdSignal ==
    /\ pc = "fdwatch"
    /\ trigger_exit = 0
    /\ trigger_exit' = 1
    /\ FdAround
    /\ UNCHANGED <<clock, position, terminal_resized, terminal_width, terminal_height>>

NextFd == FdStart \/ FdTick \/ FdExit \/ FdWatched \/ FdClock \/ FdWinch \/ FdSignal

SpecFd == InitFd /\ [][NextFd]_vars

(***************************************************************************)
(* pv_watchpid_loop with the lines it writes, loop.c:843-1086.  What is    *)
(* written to the terminal is a sequence of pieces: "frame" is the line of *)
(* one descriptor, "number" its line in numeric mode, "blank" a line of    *)
(* control.width spaces, "up" the sequence ESC [ A, and "\n" and "\r"      *)
(* themselves.  pv is in the foreground.                                   *)
(***************************************************************************)

\* The sizes of the terminal, columns and rows: a few rows, so that the
\* height limits the lines, and a width beyond PVDISPLAY_WIDTH_MAX.
PidScreens == {<<20, 2>>, <<PVDISPLAY_WIDTH_MAX + 10, 3>>}

\* pv_display, display.c:1817-1827: the numeric line ends in a line feed
\* (display.c:1279-1281), the line of the other modes is followed by a
\* carriage return.
FrameWritten(is_numeric) ==
    IF is_numeric THEN <<"number", "\n">> ELSE <<"frame", "\r">>

\* loop.c:925-1029: the lines of the descriptors from the one numbered
\* displayed_lines on, count in all, a newline before each but the first.
RECURSIVE FdLines(_, _, _)
FdLines(displayed_lines, count, is_numeric) ==
    IF displayed_lines >= count THEN <<>>
    ELSE (IF displayed_lines > 0 THEN <<"\n">> ELSE <<>>)
         \o FrameWritten(is_numeric)
         \o FdLines(displayed_lines + 1, count, is_numeric)

\* loop.c:1037-1046: blank lines where the last tick had more lines.
RECURSIVE BlankLines(_, _)
BlankLines(displayed_lines, blank_lines) ==
    IF blank_lines <= 0 THEN <<>>
    ELSE (IF displayed_lines > 0 THEN <<"\n">> ELSE <<>>)
         \o <<"blank", "\r">>
         \o BlankLines(displayed_lines + 1, blank_lines - 1)

\* loop.c:1050-1053 and 1069-1072: back up to the first line.
CursorUps(displayed_lines) ==
    Repeat("up", IF displayed_lines > 1 THEN displayed_lines - 1 ELSE 0)

\* The number of lines of a tick that shows count descriptors after a tick
\* of previous lines, loop.c:1034-1046.
LinesOfTick(count, previous) == IF previous > count THEN previous ELSE count

\* What a tick that shows count descriptors writes, loop.c:925-1053.
TickOutput(count, previous, is_numeric) ==
    FdLines(0, count, is_numeric)
    \o BlankLines(count, previous - count)
    \o CursorUps(LinesOfTick(count, previous))

\* loop.c:1059-1068: the lines are blanked on exit.
RECURSIVE CleanLines(_)
CleanLines(blank_lines) ==
    IF blank_lines <= 0 THEN <<>>
    ELSE <<"blank", "\r">>
         \o (IF blank_lines - 1 > 0 THEN <<"\n">> ELSE <<>>)
         \o CleanLines(blank_lines - 1)

\* What the clean-up on exit writes, loop.c:1056-1072.
CleanUpOutput(previous) == CleanLines(previous) \o CursorUps(previous)

\* How often the piece is in what was written.
Pieces(out, piece) == Cardinality({i \in 1..Len(out) : out[i] = piece})

\* The terminal: the line the cursor is on after the pieces from i on, the
\* cursor being on line from.  A line feed moves it down, ESC [ A moves it
\* up unless it is on the first line.
RECURSIVE CursorAfter(_, _, _)
CursorAfter(from, out, i) ==
    IF i > Len(out) THEN from
    ELSE CursorAfter(IF out[i] = "\n" THEN from + 1
                     ELSE IF out[i] = "up" /\ from > 0 THEN from - 1
                     ELSE from,
                     out, i + 1)

\* loop.c:898-899 and 901: control.width after a resize in pv_watchpid_loop.
WatchpidWidthAfterResize(set_manually, old_width, columns) == ClampWidth(columns)

\* loop.c:902: control.height after a resize in pv_watchpid_loop.
WatchpidHeightAfterResize(set_manually, old_height, rows) == rows

\* pv -d PID has been started and the process exists (loop.c:804-808).
InitPid ==
    /\ pc = "pidstart"
    /\ MainLoopIdle /\ CursorIdle /\ SkipIdle /\ WaitIdle /\ ErrIdle /\ ParseIdle
    /\ WatchIdle /\ RemoteIdle
    /\ size = 0 /\ total_written = 0
    /\ trigger_exit = 0 /\ exit_status = {} /\ output_produced = FALSE
    /\ calc = InitialCalc(1) /\ elapsed_seconds = 0 /\ bits = FALSE
    /\ display = InitialDisplay /\ format_string = <<>> /\ name = <<>>
    /\ reparse_display = 1
    /\ clock = BootTime /\ start_time = ZeroTime /\ loop_cur_time = ZeroTime
    /\ init_time = ZeroTime /\ tstp_time = ZeroTime /\ toffset = ZeroTime
    /\ stopped = FALSE
    /\ terminal_resized = 0 /\ new_width = 0
    /\ \E screen \in PidScreens :
          terminal_width = screen[1] /\ terminal_height = screen[2]
    /\ width_set_manually \in BOOLEAN /\ height_set_manually \in BOOLEAN
    /\ width = (IF width_set_manually THEN 30 ELSE ClampWidth(terminal_width))
    /\ height = (IF height_set_manually THEN 1 ELSE terminal_height)
    /\ prev_displayed_lines = 0 /\ cursor_line = 0
    /\ numeric \in BOOLEAN

\* What no step of the loop changes.
PidUnchanged ==
    UNCHANGED <<fileVars, ctlVars, loopVars, xferVars, posVars, pipe_closed, envVars,
                watchVars, calc, elapsed_seconds, bits, display, format_string, name,
                reparse_display, crsVars, skipVars, errVars, parseVars, remoteVars,
                tstp_caught, cont_caught, start_time, init_time, tstp_time, toffset,
                stopped, new_width, width_set_manually, height_set_manually, numeric>>

\* loop.c:843-852: the clock is read and the first update is one interval
\* away; no line has been displayed.
PidStart ==
    /\ pc = "pidstart"
    /\ loop_cur_time' = clock
    /\ next_update' = pv_elapsedtime_add_nsec(clock, IntervalNsec)
    /\ prev_displayed_lines' = 0
    /\ first_pass' = TRUE
    /\ pc' = "pidlines"
    /\ PidUnchanged
    /\ UNCHANGED <<clock, trigger_exit, exit_status, output_produced, retval,
                   terminal_resized, terminal_width, terminal_height, width, height,
                   cursor_line, hist>>

\* The loop is left by break, loop.c:857-858, 870 and 920.
PidBreak ==
    /\ pc' = "pidclean"
    /\ UNCHANGED <<loop_cur_time, next_update, prev_displayed_lines, first_pass,
                   exit_status, output_produced, retval, terminal_resized, width,
                   height, cursor_line, hist>>

\* The function returns in the first pass, loop.c:863-869 and 913-919.
PidReturnAccess ==
    /\ pc' = "done"
    /\ exit_status' = exit_status \cup {PV_ERROREXIT_ACCESS}
    /\ retval' = ReturnAccess
    /\ UNCHANGED <<next_update, prev_displayed_lines, first_pass, output_produced,
                   terminal_resized, width, height, cursor_line, hist>>

\* loop.c:854-1054: one pass of the loop.  An exit signal or the end of the
\* watched process ends the loop; before the update is due the pass ends
\* at once; otherwise a resize is taken in, the descriptors are scanned,
\* and the lines of found descriptors, cut to control.height, the blank
\* lines and the cursor movements are written.
PidTick ==
    /\ pc = "pidlines"
    /\ IF trigger_exit = 1 THEN PidBreak
       ELSE \E gone \in BOOLEAN, scan_failed \in BOOLEAN, found \in 0..MaxShown :
           /\ loop_cur_time' = clock
           /\ IF gone
              THEN IF first_pass THEN PidReturnAccess
                   ELSE /\ pc' = "pidclean"
                        /\ UNCHANGED <<next_update, prev_displayed_lines, first_pass,
                                       exit_status, output_produced, retval,
                                       terminal_resized, width, height, cursor_line,
                                       hist>>
              ELSE IF TimeBefore(clock, next_update)
              THEN UNCHANGED <<pc, next_update, prev_displayed_lines, first_pass,
                               exit_status, output_produced, retval, terminal_resized,
                               width, height, cursor_line, hist>>
              ELSE /\ next_update' =
                         (LET planned == pv_elapsedtime_add_nsec(next_update,
                                                                 IntervalNsec)
                          IN  IF TimeBefore(planned, clock) THEN clock ELSE planned)
                   /\ terminal_resized' = 0
                   /\ width' = IF terminal_resized = 1
                               THEN WatchpidWidthAfterResize(width_set_manually, width,
                                                             terminal_width)
                               ELSE width
                   /\ height' = IF terminal_resized = 1
                                THEN WatchpidHeightAfterResize(height_set_manually,
                                                               height, terminal_height)
                                ELSE height
                   /\ IF scan_failed
                      THEN IF first_pass
                           THEN /\ pc' = "done"
                                /\ exit_status' = exit_status \cup {PV_ERROREXIT_ACCESS}
                                /\ retval' = ReturnAccess
                                /\ UNCHANGED <<prev_displayed_lines, first_pass,
                                               output_produced, cursor_line, hist>>
                           ELSE /\ pc' = "pidclean"
                                /\ UNCHANGED <<prev_displayed_lines, first_pass,
                                               exit_status, output_produced, retval,
                                               cursor_line, hist>>
                      ELSE /\ first_pass' = FALSE
                           /\ prev_displayed_lines' = Min(found, height')
                           /\ cursor_line' =
                                  CursorAfter(0, TickOutput(Min(found, height'),
                                                            prev_displayed_lines,
                                                            numeric), 1)
                           /\ output_produced' = (output_produced \/ found > 0)
                           /\ hist' = [hist EXCEPT
                                          !.pid_ticks = Min(@ + 1, 2),
                                          !.pid_shown = Min(found, height'),
                                          !.pid_previous = prev_displayed_lines,
                                          !.pid_out = TickOutput(Min(found, height'),
                                                                 prev_displayed_lines,
                                                                 numeric)]
                           /\ UNCHANGED <<pc, exit_status, retval>>
    /\ (trigger_exit = 1 => UNCHANGED loop_cur_time)
    /\ PidUnchanged
    /\ UNCHANGED <<clock, trigger_exit, terminal_width, terminal_height>>

\* loop.c:1056-1086: the lines are blanked, the cursor goes back up, and
\* the function returns 0.
PidClean ==
    /\ pc = "pidclean"
    /\ cursor_line' = CursorAfter(0, CleanUpOutput(prev_displayed_lines), 1)
    /\ hist' = [hist EXCEPT !.pid_cleaned = TRUE,
                            !.pid_previous = prev_displayed_lines,
                            !.pid_out = CleanUpOutput(prev_displayed_lines)]
    /\ retval' = ReturnZero
    /\ pc' = "done"
    /\ PidUnchanged
    /\ UNCHANGED <<clock, loop_cur_time, next_update, prev_displayed_lines, first_pass,
                   trigger_exit, exit_status, output_produced, terminal_resized,
                   terminal_width, terminal_height, width, height>>

\* What the processes around pv leave alone.
PidAround ==
    /\ PidUnchanged
    /\ UNCHANGED <<pc, pidVars, loop_cur_time, next_update, prev_displayed_lines,
                   exit_status, output_produced, width, height, cursor_line, hist>>

\* Time passes: the loop sleeps (loop.c:878) or waits for the processor.
PidClock ==
    /\ pc = "pidlines"
    /\ clock.tv_sec < MaxSeconds
    /\ clock' = pv_elapsedtime_add(clock, [tv_sec |-> 0, tv_nsec |-> ClockStep])
    /\ PidAround
    /\ UNCHANGED <<trigger_exit, terminal_resized, terminal_width, terminal_height>>

\* pv_sig_winch, signal.c:150-154: the terminal has another size and the
\* handler sets the flag.
PidWinch ==
    /\ pc = "pidlines"
    /\ terminal_resized = 0
    /\ \E screen \in PidScreens \ {<<terminal_width, terminal_height>>} :
          terminal_width' = screen[1] /\ terminal_height' = screen[2]
    /\ terminal_resized' = 1
    /\ PidAround
    /\ UNCHANGED <<clock, trigger_exit>>

\* A signal to exit sets the flag the loop looks at (loop.c:857).
PidSignal ==
    /\ pc = "pidlines"
    /\ trigger_exit = 0
    /\ trigger_exit' = 1
    /\ PidAround
    /\ UNCHANGED <<clock, terminal_resized, terminal_width, terminal_height>>

NextPid == PidStart \/ PidTick \/ PidClean \/ PidClock \/ PidWinch \/ PidSignal

SpecPid == InitPid /\ [][NextPid]_vars

(***************************************************************************)
(* pv -R: pv_remote_set and the processes it talks to, remote.c:87-331.    *)
(* All processes of one user share one System V message queue              *)
(* (remote__genkey); a message is addressed by its mtype, the pid of the   *)
(* target.  Every call on the queue is a step of its own, so that the      *)
(* processes interleave as the kernel lets them.  In msgq, id is the       *)
(* identifier of the queue that exists or existed last; a queue created    *)
(* after a removal has another identifier.  The field from of a message    *)
(* and the fields sent and consumed of a sender are there to state the     *)
(* properties.                                                             *)
(***************************************************************************)

\* The pv -R processes and the pids of the pv processes they address.
SenderIds == {1, 2}
Targets == {11, 12}

\* remote.c:196 and 202: the time between two looks at the queue, microseconds.
RemoteWait == 10000

\* msgctl(msgid, IPC_STAT), msgsnd and msgrcv fail when the queue of this
\* identifier is gone.
QueueThere(msgid) == msgq.exists /\ msgq.id = msgid

\* remote__msgget, remote.c:87-94: msgget with IPC_CREAT gives the user's
\* queue, creating it when there is none.
QueueAfterMsgget ==
    IF msgq.exists THEN msgq
    ELSE [exists |-> TRUE, id |-> msgq.id + 1, msgs |-> <<>>]

\* msgctl(msgid, IPC_RMID): the queue and its messages are gone.
QueueRemoved == [msgq EXCEPT !.exists = FALSE, !.msgs = <<>>]

\* msgrcv with a message type: the places in the queue of the messages of
\* that type; the first of them is received.
PlacesOfType(mtype) == {i \in 1..Len(msgq.msgs) : msgq.msgs[i].mtype = mtype}
FirstOfType(mtype) ==
    CHOOSE i \in PlacesOfType(mtype) : \A j \in PlacesOfType(mtype) : i <= j
QueueWithout(i) ==
    [msgq EXCEPT !.msgs = SubSeq(@, 1, i - 1) \o SubSeq(@, i + 1, Len(@))]

\* The senders after the message at place i of the queue has been received
\* by the process it was addressed to.
AfterConsumed(i) ==
    [senders EXCEPT ![msgq.msgs[i].from].consumed = TRUE]

\* remote.c:215: the message counts as received when the queue holds no
\* more messages than before it was sent.
AssumedReceived(msg_qnum, initial_qnum) == msg_qnum <= initial_qnum

\* One or two pv -R processes are about to call pv_remote_set, each for one
\* of two running pv processes, which have called pv_remote_init
\* (remote.c:314-317).
InitRemote ==
    /\ pc = "remote"
    /\ MainLoopIdle /\ SignalIdle /\ CursorIdle /\ WatchIdle /\ ResizeIdle /\ SkipIdle
    /\ WaitIdle /\ ErrIdle /\ ParseIdle /\ RowIdle /\ LineIdle
    /\ size = 0 /\ total_written = 0
    /\ trigger_exit = 0 /\ exit_status = {} /\ output_produced = FALSE
    /\ calc = InitialCalc(1) /\ elapsed_seconds = 0 /\ bits = FALSE
    /\ FormatIdle
    /\ msgq = [exists |-> TRUE, id |-> 1, msgs |-> <<>>]
    /\ running = Targets
    /\ remote__msgid = [t \in Targets |-> 1]
    /\ senders \in [SenderIds ->
                      [pc : {"rstart", "absent"}, remote : Targets, msgid : {-1},
                       initial_qnum : {0}, timeout : {0}, ret : {-1},
                       sent : {FALSE}, consumed : {FALSE}]]
    /\ \E s \in SenderIds : senders[s].pc = "rstart"
    /\ \A s \in SenderIds : senders[s].pc = "absent" => senders[s].remote = 11

\* What no step of remote control changes.
RemoteUnchanged ==
    UNCHANGED <<pc, fileVars, ctlVars, loopVars, xferVars, flagVars, envVars, watchVars,
                dispVars, posVars, pidVars, sigVars, crsVars, winVars, skipVars,
                waitVars, errVars, parseVars, rowVars, lineVars, hist>>

\* remote.c:115-118: the target must exist.
RemoteKill(s) ==
    /\ senders[s].pc = "rstart"
    /\ senders' = [senders EXCEPT
                      ![s].pc = IF senders[s].remote \in running THEN "rget" ELSE "rdone",
                      ![s].ret = IF senders[s].remote \in running THEN -1 ELSE 1]
    /\ RemoteUnchanged
    /\ UNCHANGED <<msgq, remote__msgid, running>>

\* remote.c:172: the queue is opened, or created.
RemoteGet(s) ==
    /\ senders[s].pc = "rget"
    /\ msgq' = QueueAfterMsgget
    /\ senders' = [senders EXCEPT ![s].msgid = QueueAfterMsgget.id, ![s].pc = "rstat"]
    /\ RemoteUnchanged
    /\ UNCHANGED <<remote__msgid, running>>

\* remote.c:178-184: the number of messages in the queue is noted.
RemoteStat(s) ==
    /\ senders[s].pc = "rstat"
    /\ senders' = IF QueueThere(senders[s].msgid)
                  THEN [senders EXCEPT ![s].initial_qnum = Len(msgq.msgs),
                                       ![s].pc = "rsend"]
                  ELSE [senders EXCEPT ![s].ret = 1, ![s].pc = "rdone"]
    /\ RemoteUnchanged
    /\ UNCHANGED <<msgq, remote__msgid, running>>

\* remote.c:186-191: the message is sent and the wait begins.
RemoteSend(s) ==
    /\ senders[s].pc = "rsend"
    /\ IF QueueThere(senders[s].msgid)
       THEN /\ msgq' = [msgq EXCEPT
                           !.msgs = Append(@, [mtype |-> senders[s].remote, from |-> s])]
            /\ senders' = [senders EXCEPT ![s].sent = TRUE, ![s].timeout = MaxTimeout,
                                          ![s].pc = "rpoll"]
       ELSE /\ senders' = [senders EXCEPT ![s].ret = 1, ![s].pc = "rdone"]
            /\ UNCHANGED msgq
    /\ RemoteUnchanged
    /\ UNCHANGED <<remote__msgid, running>>

\* remote.c:193-218: one pass of the wait, or its end.
RemotePoll(s) ==
    /\ senders[s].pc = "rpoll"
    /\ senders' =
           IF ~(senders[s].timeout > RemoteWait)
           THEN [senders EXCEPT ![s].pc = "rdelete"]
           ELSE IF ~QueueThere(senders[s].msgid)
           THEN [senders EXCEPT ![s].timeout = @ - RemoteWait, ![s].pc = "rdelete"]
           ELSE IF AssumedReceived(Len(msgq.msgs), senders[s].initial_qnum)
           THEN [senders EXCEPT ![s].timeout = @ - RemoteWait, ![s].ret = 0,
                                ![s].pc = "rdone"]
           ELSE [senders EXCEPT ![s].timeout = @ - RemoteWait]
    /\ RemoteUnchanged
    /\ UNCHANGED <<msgq, remote__msgid, running>>

\* remote.c:223-225: a message for the target is taken from the queue.
RemoteDelete(s) ==
    /\ senders[s].pc = "rdelete"
    /\ IF QueueThere(senders[s].msgid)
       THEN /\ msgq' = IF PlacesOfType(senders[s].remote) = {} THEN msgq
                       ELSE QueueWithout(FirstOfType(senders[s].remote))
            /\ senders' = [senders EXCEPT ![s].pc = "rrmid"]
       ELSE /\ senders' = [senders EXCEPT ![s].ret = 1, ![s].pc = "rdone"]
            /\ UNCHANGED msgq
    /\ RemoteUnchanged
    /\ UNCHANGED <<remote__msgid, running>>

\* remote.c:230-243: an empty queue is removed, and the call returns 1.
RemoteRmid(s) ==
    /\ senders[s].pc = "rrmid"
    /\ msgq' = IF QueueThere(senders[s].msgid) /\ Len(msgq.msgs) < 1
               THEN QueueRemoved ELSE msgq
    /\ senders' = [senders EXCEPT ![s].ret = 1, ![s].pc = "rdone"]
    /\ RemoteUnchanged
    /\ UNCHANGED <<remote__msgid, running>>

\* pv_remote_check, remote.c:255-277: a running pv takes a message
\* addressed to it; when its queue is gone it opens the queue again.
RemoteCheck(t) ==
    /\ t \in running
    /\ remote__msgid[t] >= 0
    /\ IF ~QueueThere(remote__msgid[t])
       THEN /\ msgq' = QueueAfterMsgget
            /\ remote__msgid' = [remote__msgid EXCEPT ![t] = QueueAfterMsgget.id]
            /\ UNCHANGED senders
       ELSE /\ PlacesOfType(t) # {}
            /\ msgq' = QueueWithout(FirstOfType(t))
            /\ senders' = AfterConsumed(FirstOfType(t))
            /\ UNCHANGED remote__msgid
    /\ RemoteUnchanged
    /\ UNCHANGED running

\* pv_remote_fini, remote.c:323-331: a pv that ends removes the queue.
RemoteFini(t) ==
    /\ t \in running
    /\ running' = running \ {t}
    /\ msgq' = IF remote__msgid[t] >= 0 /\ QueueThere(remote__msgid[t])
               THEN QueueRemoved ELSE msgq
    /\ RemoteUnchanged
    /\ UNCHANGED <<senders, remote__msgid>>

NextRemote ==
    \/ \E s \in SenderIds : RemoteKill(s)
    \/ \E s \in SenderIds : RemoteGet(s)
    \/ \E s \in SenderIds : RemoteStat(s)
    \/ \E s \in SenderIds : RemoteSend(s)
    \/ \E s \in SenderIds : RemotePoll(s)
    \/ \E s \in SenderIds : RemoteDelete(s)
    \/ \E s \in SenderIds : RemoteRmid(s)
    \/ \E t \in Targets : RemoteCheck(t)
    \/ \E t \in Targets : RemoteFini(t)

SpecRemote == InitRemote /\ [][NextRemote]_vars

(***************************************************************************)
(* Cursor mode (-c): several instances of pv on one terminal.  The         *)
(* handlers and the shutdown are those of signal.c; pv_crs_init,           *)
(* pv_crs_update and pv_crs_fini are described by the specification:       *)
(* each takes the lock of the lock file for what it does, the segment is   *)
(* created zeroed by the first instance that attaches and removed when     *)
(* the last one detaches, and pv_crs_fini leaves in crs_pvcount the number *)
(* of instances attached when it ran.  stderr is the terminal, so          *)
(* tcgetattr and tcsetattr succeed.                                        *)
(***************************************************************************)

InitCursor ==
    /\ pc = "cursor"
    /\ MainLoopIdle /\ WatchIdle /\ ResizeIdle /\ SkipIdle /\ ExtIdle /\ DisplayIdle /\ SignalIdle
    /\ size = 0 /\ total_written = 0
    /\ trigger_exit = 0 /\ exit_status = {} /\ output_produced = FALSE
    /\ CursorFresh
    /\ tostop \in BOOLEAN

\* What stays as it is in every step of the cursor coordination.
CursorUnchanged ==
    UNCHANGED <<extVars, winVars, skipVars, pc, fileVars, ctlVars, loopVars, xferVars, flagVars, envVars, watchVars,
                dispVars, posVars, pidVars, sigVars>>

\* An instance that has started and has not begun to shut down.
Running(i) == crs_pc[i] \in {"init", "run", "update"}

\* The instances attached to the segment (shm_nattch).
Attached(att) == Cardinality({i \in Instances : att[i]})

\* signal.c:33-60: what pv_sig_ensure_tty_tostop leaves.  With TOSTOP clear
\* it sets the attribute and the instance's pv_tty_tostop_added and, when
\* the instance is attached to the segment, the segment's tty_tostop_added;
\* no lock is taken.
pv_sig_ensure_tty_tostop(i) ==
    IF ~tostop
    THEN [tostop |-> TRUE,
          added |-> [pv_tty_tostop_added EXCEPT ![i] = TRUE],
          shared |-> IF crs_attached[i]
                     THEN [crs_shared EXCEPT !.tty_tostop_added = TRUE]
                     ELSE crs_shared,
          wrote_shared |-> crs_attached[i]]
    ELSE [tostop |-> tostop, added |-> pv_tty_tostop_added, shared |-> crs_shared,
          wrote_shared |-> FALSE]

\* The history after pv_sig_ensure_tty_tostop ran in instance i.
EnsureHist(i, h) ==
    LET e == pv_sig_ensure_tty_tostop(i)
    IN  [h EXCEPT !.unlocked_write = @ \/ (e.wrote_shared /\ crs_lock # i),
                  !.tostop_set = @ \/ ~tostop]

\* signal.c:170-252, pv_sig_init: the handlers are installed and TOSTOP is
\* ensured; the instance is not attached to the segment yet (pv_crs_init is
\* called later, at loop.c:121).
SigInit(i) ==
    /\ pc = "cursor"
    /\ crs_pc[i] = "start"
    /\ LET e == pv_sig_ensure_tty_tostop(i)
       IN  /\ tostop' = e.tostop
           /\ pv_tty_tostop_added' = e.added
           /\ crs_shared' = e.shared
    /\ hist' = EnsureHist(i, hist)
    /\ crs_pc' = [crs_pc EXCEPT ![i] = "init"]
    /\ CursorUnchanged
    /\ UNCHANGED <<extVars, winVars, skipVars, crs_pvcount, crs_attached, crs_lock>>

\* pv_crs_init (loop.c:121), under the lock: the instance attaches to the
\* segment; the first one to attach records the topmost row.
CrsInit(i) ==
    /\ pc = "cursor"
    /\ crs_pc[i] = "init"
    /\ crs_lock = 0
    /\ LET att == [crs_attached EXCEPT ![i] = TRUE]
       IN  /\ crs_attached' = att
           /\ crs_pvcount' = [crs_pvcount EXCEPT ![i] = Attached(att)]
           /\ crs_shared' = IF Attached(att) = 1
                            THEN [NewSegment EXCEPT !.y_topmost = 1]
                            ELSE crs_shared
    /\ crs_pc' = [crs_pc EXCEPT ![i] = "run"]
    /\ CursorUnchanged
    /\ UNCHANGED <<extVars, winVars, skipVars, pv_tty_tostop_added, crs_lock, tostop, hist>>

\* pv_crs_update (display.c:1819-1821): the lock is taken for the update of
\* the terminal.
CrsUpdateBegin(i) ==
    /\ pc = "cursor"
    /\ crs_pc[i] = "run"
    /\ crs_lock = 0
    /\ crs_lock' = i
    /\ crs_pc' = [crs_pc EXCEPT ![i] = "update"]
    /\ CursorUnchanged
    /\ UNCHANGED <<extVars, winVars, skipVars, pv_tty_tostop_added, crs_pvcount, crs_attached, crs_shared, tostop, hist>>

\* pv_crs_update: the update is done and the lock released.
CrsUpdateEnd(i) ==
    /\ pc = "cursor"
    /\ crs_pc[i] = "update"
    /\ crs_lock' = 0
    /\ crs_pc' = [crs_pc EXCEPT ![i] = "run"]
    /\ CursorUnchanged
    /\ UNCHANGED <<extVars, winVars, skipVars, pv_tty_tostop_added, crs_pvcount, crs_attached, crs_shared, tostop, hist>>

\* signal.c:103-145, pv_sig_cont, while its handler is installed: TOSTOP is
\* ensured again, wherever the instance is.
CrsSigCont(i) ==
    /\ pc = "cursor"
    /\ crs_pc[i] \in {"init", "run", "update", "sigfini"}
    /\ hist.resumes < MaxResumes
    /\ LET e == pv_sig_ensure_tty_tostop(i)
       IN  /\ tostop' = e.tostop
           /\ pv_tty_tostop_added' = e.added
           /\ crs_shared' = e.shared
    /\ hist' = [EnsureHist(i, hist) EXCEPT !.resumes = @ + 1]
    /\ CursorUnchanged
    /\ UNCHANGED <<extVars, winVars, skipVars, crs_pc, crs_pvcount, crs_attached, crs_lock>>

\* Another program (the shell when it takes the terminal back, stty) clears
\* TOSTOP.
TerminalReset ==
    /\ pc = "cursor"
    /\ tostop
    /\ hist.resets < MaxResets
    /\ tostop' = FALSE
    /\ hist' = [hist EXCEPT !.resets = @ + 1]
    /\ CursorUnchanged
    /\ UNCHANGED <<extVars, winVars, skipVars, crs_pc, pv_tty_tostop_added, crs_pvcount, crs_attached, crs_shared,
                   crs_lock>>

\* pv_crs_fini (loop.c:522-523), under the lock: crs_pvcount is the number
\* of instances attached, this one included; the instance detaches, and the
\* segment goes with the last one.
CrsFini(i) ==
    /\ pc = "cursor"
    /\ crs_pc[i] = "run"
    /\ crs_lock = 0
    /\ LET att == [crs_attached EXCEPT ![i] = FALSE]
       IN  /\ crs_pvcount' = [crs_pvcount EXCEPT ![i] = Attached(crs_attached)]
           /\ crs_attached' = att
           /\ crs_shared' = IF Attached(att) = 0 THEN NewSegment ELSE crs_shared
    /\ crs_pc' = [crs_pc EXCEPT ![i] = "sigfini"]
    /\ CursorUnchanged
    /\ UNCHANGED <<extVars, winVars, skipVars, pv_tty_tostop_added, crs_lock, tostop, hist>>

\* signal.c:272-288: whether pv_sig_fini is to clear TOSTOP.
need_to_clear_tostop(i) == pv_tty_tostop_added[i] /\ ~(crs_pvcount[i] > 1)

\* signal.c:260-315, pv_sig_fini: the instance that set TOSTOP clears it when
\* it is in the foreground and counted no other instance in pv_crs_fini.
SigFini(i) ==
    /\ pc = "cursor"
    /\ crs_pc[i] = "sigfini"
    /\ \E pv_in_foreground \in BOOLEAN :
         /\ IF need_to_clear_tostop(i) /\ pv_in_foreground
            THEN /\ tostop' = FALSE
                 /\ pv_tty_tostop_added' = [pv_tty_tostop_added EXCEPT ![i] = FALSE]
            ELSE UNCHANGED <<extVars, winVars, skipVars, tostop, pv_tty_tostop_added>>
         /\ hist' = [hist EXCEPT
               !.cleared_while_running =
                   @ \/ (/\ need_to_clear_tostop(i) /\ pv_in_foreground /\ tostop
                         /\ \E j \in Instances \ {i} : Running(j)),
               !.last_foreground = pv_in_foreground]
    /\ crs_pc' = [crs_pc EXCEPT ![i] = "exited"]
    /\ CursorUnchanged
    /\ UNCHANGED <<extVars, winVars, skipVars, crs_pvcount, crs_attached, crs_shared, crs_lock>>

NextCursor ==
    \/ \E i \in Instances : SigInit(i)
    \/ \E i \in Instances : CrsInit(i)
    \/ \E i \in Instances : CrsUpdateBegin(i)
    \/ \E i \in Instances : CrsUpdateEnd(i)
    \/ \E i \in Instances : CrsSigCont(i)
    \/ TerminalReset
    \/ \E i \in Instances : CrsFini(i)
    \/ \E i \in Instances : SigFini(i)

SpecCursor == InitCursor /\ [][NextCursor]_vars

(***************************************************************************)
(* Properties of the transfer.                                             *)
(***************************************************************************)

\* The bytes of the input files from the i-th on, in list order.
RECURSIVE InputFrom(_)
InputFrom(i) ==
    IF i > Len(files) THEN <<>> ELSE FileBytes(i, files[i]) \o InputFrom(i + 1)

\* No file failed to open or close and no write failed.
NoTransferError ==
    /\ ~hist.write_error
    /\ exit_status \cap {PV_ERROREXIT_ACCESS, PV_ERROREXIT_SAMEFILE,
                          PV_ERROREXIT_CLOSE} = {}

\* C1 as stated: with stop_at_size off and no read error, write error or pipe
\* closure, the bytes delivered to the output by the time pv_main_loop
\* terminates are the concatenation of the input files' bytes in list order.
C1_OutputIsInput ==
    (pc = "done" /\ ~stop_at_size /\ NoTransferError /\ pipe_closed = 0)
        => output = InputFrom(1)

\* C1, amended: with stop_at_size off, no read error, write error or pipe
\* closure, and no SIGINT, SIGHUP or SIGTERM ending the loop early, the bytes
\* delivered to the output by the time pv_main_loop terminates are the
\* concatenation of the input files' bytes in list order.
C1_OutputIsInputUnlessSignalled ==
    (pc = "done" /\ ~stop_at_size /\ NoTransferError /\ pipe_closed = 0
        /\ trigger_exit = 0)
        => output = InputFrom(1)

\* Two non-empty files have gone through under a rate limit, in several ticks.
C1_Witness ==
    /\ pc = "done" /\ ~stop_at_size /\ NoTransferError /\ pipe_closed = 0
    /\ trigger_exit = 0
    /\ Len(files) = 2 /\ files[1] = 2 /\ files[2] > 0
    /\ rate_limit > 0
    /\ output = InputFrom(1)

\* C2: at every tick boundary and after every step of the transfer engine
\* (growth, read, write, collapse), 0 <= write_position <= read_position <=
\* buffer_size.
C2_BufferPositions ==
    /\ 0 <= write_position
    /\ write_position <= read_position
    /\ read_position <= buffer_size
    /\ Len(transfer_buffer) = read_position

\* The buffer has grown, is full, and has been written in part.
C2_Witness ==
    /\ pc = "collapse"
    /\ 0 < write_position /\ write_position < read_position
    /\ read_position = buffer_size

\* floor(target), the budget of a rate-limited tick.
Budget == TruncDiv(target, RefillDivisor)

\* C3: with rate_limit > 0, what a tick writes (bytes, or lines in line mode)
\* never exceeds the tick's budget floor(target), also when the budget is 0;
\* so the amount written under a rate limit is at most the tokens refilled
\* (rate_limit / 10 per refill), and the n-th refill comes later than
\* (n - 1) * RATE_GRANULARITY after the start.
C3_RateLimitRespected ==
    /\ (rate_limit > 0 /\ pc \in {"read", "write", "collapse", "account"})
         => (IF linemode THEN hist.sent_lines ELSE hist.sent_bytes) <= Budget
    /\ hist.sent_limited * RefillDivisor <= hist.refilled
    /\ next_ratecheck > 0 => cur_time > next_ratecheck - RATE_GRANULARITY

\* A rate-limited tick with data waiting in the buffer and a budget of 0, after
\* earlier ticks have sent data.
C3_Witness ==
    /\ pc = "account" /\ rate_limit > 0
    /\ hist.sent_limited > 0
    /\ Budget = 0 /\ hist.sent_bytes = 0
    /\ write_position < read_position /\ ~eof_out

\* C4: at every tick with rate_limit > 0, 0 <= target <= RATE_BURST_WINDOW *
\* rate_limit, whatever the refills, transfers and remote changes of rate_limit.
C4_TargetWithinBurst ==
    rate_limit > 0 =>
        /\ 0 <= target
        /\ target <= RATE_BURST_WINDOW * rate_limit * RefillDivisor

\* C6: a display frame with final = true is rendered only in a tick where
\* eof_in and eof_out are both true and written_but_not_consumed is 0; at most
\* one such frame is rendered per run of pv_main_loop, and pv_transfer is
\* never called after it.
C6_FinalFrameOnce ==
    /\ hist.final_tick_ok
    /\ hist.final_frames <= 1
    /\ ~hist.xfer_after_final

\* The final frame of a run whose output went into a pipe, after ticks that
\* waited for the consumer to empty it.
C6_Witness ==
    /\ pc = "done" /\ hist.final_frames = 1
    /\ output_is_pipe /\ Len(output) > 0 /\ pipe_closed = 0
    /\ final_update

\* The last input file is at EOF with nothing left in the buffer, and the
\* consumer has closed the output pipe.
InputDoneAndPipeClosed ==
    /\ pc = "top" /\ output_is_pipe /\ reader_closed
    /\ eof_in /\ eof_out /\ file_idx >= file_count - 1

\* C7 as stated, termination: once every input has reached EOF and the
\* consumer has closed the output pipe, pv_main_loop eventually terminates.
C7_ClosedPipeTerminates == InputDoneAndPipeClosed ~> (pc = "done")

\* C7 as stated, the ticks after the closure: once pipe_closed is set, both
\* EOF flags are set and written_but_not_consumed is 0 at every later tick.
C7_ClosedPipeTicks ==
    (pc = "top" /\ pipe_closed # 0)
        => (eof_in /\ eof_out /\ written_but_not_consumed = 0)

\* C8 as stated: with stop_at_size set and size > 0, total_written (bytes, or
\* lines in line mode) never exceeds size at any tick, for any rate limit.
C8_TotalWithinSize ==
    (stop_at_size /\ size > 0) => total_written <= size

\* C10 as stated: across successive ticks of a run, total_written never
\* decreases, in pv_main_loop and in the watch loops.
C10_TotalNeverDecreases == [][total_written' >= total_written]_vars

\* C10, amended: total_written never decreases in pv_main_loop, where each
\* tick adds the non-negative amount written; in the watch loop the value
\* recorded for a tick is the offset of the watched descriptor at that tick,
\* below the previous value only if the watched process has moved the offset
\* back.
C10_TotalFollowsTransferOrOffset ==
    [][IF pc = "watch"
       THEN total_written' = total_written \/ total_written' = position
       ELSE total_written' >= total_written]_vars

\* The main loop has added a positive amount in a second tick.
C10_Witness ==
    /\ pc = "advance" /\ written > 0
    /\ TickAmount > 0 /\ total_written > TickAmount

(***************************************************************************)
(* Properties of the rate calculator.                                      *)
(***************************************************************************)

\* C9 as stated: whenever size > 0, after every call of
\* pv_calculate_transfer_rate, 0 <= percentage <= 100, for every value of
\* total_written, including values larger than size.
C9_PercentageAtMost100 ==
    (size > 0 /\ hist.calls > 0) => (0 <= calc.percentage /\ calc.percentage <= 100)

\* C9, amended: whenever size > 0, after every call of
\* pv_calculate_transfer_rate, 0 <= percentage <= 100000 for every value of
\* total_written, and percentage <= 100 whenever total_written <= size.
C9_PercentageClamped ==
    (size > 0 /\ hist.calls > 0) =>
        /\ 0 <= calc.percentage /\ calc.percentage <= PERCENTAGE_MAX
        /\ total_written <= size => calc.percentage <= 100

\* A call has found total_written so far above size that the clamp applies.
C9_Witness ==
    /\ size > 0 /\ hist.calls > 1
    /\ total_written > size
    /\ pv_percentage(total_written, size) > PERCENTAGE_MAX
    /\ calc.percentage = PERCENTAGE_MAX

(***************************************************************************)
(* Properties of the formatter.                                            *)
(***************************************************************************)

\* C5: in non-numeric mode, after every pv_format call, for every format
\* string, name and terminal width (including widths smaller than the static
\* and fixed-width portion of the format), the width of the rendered display
\* line, including any shrink padding, is at most control.width.
C5_LineWithinWidth ==
    hist.calls > 0 =>
        /\ display.display_string_width <= width
        /\ Len(display.display_buffer) <= width

(***************************************************************************)
(* Properties of the consumption accounting.                               *)
(***************************************************************************)

\* The tick's accounting is over and the next pv_transfer has not begun.
AfterTick == pc \in {"advance", "finish", "top"}

\* What the FIONREAD query of the tick can make of
\* written_but_not_consumed: the bytes waiting in the pipe, or 0 when the
\* query fails or gives a negative count; 0 when the pipe is closed.
OccupancyRead == IF pipe_closed # 0 THEN {0} ELSE {pipe_fill, 0}

\* C11: after every tick of pv_main_loop in byte mode, transferred is
\* total_written minus written_but_not_consumed when the output is a pipe,
\* written_but_not_consumed being the occupancy FIONREAD gave in the tick,
\* or 0 when the pipe is closed, the query failed or the count was
\* negative; and transferred is total_written when the output is no pipe.
C11_TransferredInByteMode ==
    (AfterTick /\ ~linemode) =>
        /\ output_is_pipe =>
              /\ (pc = "advance") => written_but_not_consumed \in OccupancyRead
              /\ transferred = total_written - written_but_not_consumed
        /\ (~output_is_pipe) => transferred = total_written

\* A tick in byte mode that finds part of the output still in the pipe.
C11_Witness ==
    /\ pc = "advance" /\ ~linemode /\ output_is_pipe
    /\ written_but_not_consumed > 0
    /\ transferred > 0 /\ transferred < total_written

\* The slots of the line_positions_length most recent positions.
RecentSlots ==
    {(line_positions_head + line_positions_capacity - 1 - j) % line_positions_capacity :
        j \in 0..(line_positions_length - 1)}

\* C12: in line mode with a pipe as output and written_but_not_consumed > 0,
\* transferred is total_written minus the number of positions, among the
\* line_positions_length most recent ones of the ring, that lie after
\* last_output_position - written_but_not_consumed; every slot the walk
\* reads is within the capacity and holds a recorded position.
C12_TransferredInLineMode ==
    (AfterTick /\ linemode /\ output_is_pipe /\ written_but_not_consumed > 0) =>
        /\ transferred = total_written
              - Cardinality({i \in RecentSlots :
                    line_positions[i] > last_output_position - written_but_not_consumed})
        /\ hist.indexes_read \subseteq 0..(line_positions_capacity - 1)
        /\ hist.indexes_read \subseteq hist.recorded

\* The ring is full and its head has wrapped; one line waits in the pipe,
\* another has been consumed.
C12_Witness ==
    /\ pc = "advance" /\ linemode /\ output_is_pipe
    /\ written_but_not_consumed > 0
    /\ line_positions_length = line_positions_capacity /\ line_positions_head = 0
    /\ transferred > 0 /\ transferred < total_written
    /\ hist.indexes_read # {}

(***************************************************************************)
(* Properties of the signals.                                              *)
(***************************************************************************)

SignalledLoopEnds == (trigger_exit = 1) ~> (pc = "done")

C14_SignalBit ==
    (pc = "done") =>
        /\ hist.broke => PV_ERROREXIT_SIGNAL \in retval
        /\ (trigger_exit = 0) => PV_ERROREXIT_SIGNAL \notin retval

\* A time of the clock in microseconds.
Usec(t) == t.tv_sec * USEC_PER_SEC + t.tv_nsec \div (NSEC_PER_SEC \div USEC_PER_SEC)

\* The step that computes elapsed_seconds and displays the frame.
FrameStep == pc = "addnsec" /\ pc' = "clock"

\* toffset has not gone down in the step.
ToffsetGrows ==
    \/ toffset'.tv_sec > toffset.tv_sec
    \/ toffset'.tv_sec = toffset.tv_sec /\ toffset'.tv_nsec >= toffset.tv_nsec

\* toffset never decreases while the transfer is timed.
ToffsetNeverDecreases == [][ToffsetGrows]_vars

\* A SIGCONT that finds no recorded SIGTSTP time leaves toffset unchanged.
ContWithoutTstp ==
    [][(hist'.conts # hist.conts /\ tstp_time = ZeroTime) => toffset' = toffset]_vars

\* A SIGCONT has been handled with no SIGTSTP time recorded.
SecondContSeen == hist.conts > hist.stops

\* C15: at every display tick, elapsed_seconds is the current monotonic
\* time less the start time, less the total time spent stopped between each
\* SIGTSTP and the SIGCONT that follows it; toffset never decreases while a
\* transfer is timed; and a SIGCONT with no recorded SIGTSTP time, a second
\* SIGCONT in a row included, leaves toffset as it is.  The current time is
\* the tick's reading of the clock, and the time stopped is that of the
\* stops that ended before the reading.
C15_ElapsedExcludesStops ==
    /\ [][FrameStep =>
           elapsed_seconds' = Usec(loop_cur_time) - Usec(start_time) - hist.stopped_at_read]_vars
    /\ ToffsetNeverDecreases
    /\ ContWithoutTstp

\* C16: the main loop reads toffset only where the SIGCONT handler cannot
\* be changing it: under every interleaving of SIGTSTP and SIGCONT with the
\* loop, the tv_sec and tv_nsec used for a frame are those of one value
\* that toffset has held, never a mix of two.
C16_ToffsetReadWhole ==
    (pc = "clock" /\ hist.frames > 0) => hist.toffset_read \in hist.toffsets

(***************************************************************************)
(* Properties of the cursor coordination.                                  *)
(***************************************************************************)

\* C18: in cursor mode at most one instance at a time is inside a terminal
\* update, and every write to the shared segment (y_topmost,
\* tty_tostop_added), those made from signal handling included, is made
\* while the writer holds the lock of the lock file.
C18_SegmentWrittenUnderLock ==
    /\ Cardinality({i \in Instances : crs_pc[i] = "update"}) <= 1
    /\ ~hist.unlocked_write

\* Every instance has shut down.
AllExited == \A i \in Instances : crs_pc[i] = "exited"

\* C19: if TOSTOP was clear on the terminal and some instance set it
\* (tostop_set: an instance found TOSTOP clear and set it), it
\* is never cleared by an instance while another cursor-mode instance is
\* still running, and it is clear again once the last instance has shut
\* down in the foreground, whichever instance set it and in whatever order
\* the instances exit.
C19_TostopClearedByLast ==
    hist.tostop_set =>
        /\ ~hist.cleared_while_running
        /\ (AllExited /\ hist.last_foreground) => ~tostop

(***************************************************************************)
(* Properties of the remote control.                                       *)
(***************************************************************************)

\* The step in which pv_remote_check receives a message.
RemoteStep == hist'.reformats # hist.reformats

\* The step in which a frame is rendered.
DisplayStep == hist'.calls # hist.calls

\* What the frame rendered in the step shows, with the options in force.
FrameShown ==
    [size |-> size, percentage |-> calc'.percentage,
     elapsed_seconds |-> elapsed_seconds',
     transferred |-> total_written', initial_offset |-> initial_offset,
     current_avg_rate |-> calc'.current_avg_rate,
     name |-> name, final_update |-> (pc' = "done")]

\* What a compiled format is made of: the component and the chosen size of
\* each segment (rendering fills in the rest).
SegmentKinds(format) ==
    [i \in 1..Len(format) |-> <<format[i].type, format[i].chosen_size>>]

FileNumbers == [i \in 1..file_count |-> i - 1]

\* pv_main_loop has returned without a signal, a closed output pipe, a write
\* error or stop_at_size ending the transfer early.
RunCompleted ==
    /\ pc = "done" /\ file_count > 0
    /\ trigger_exit = 0 /\ pipe_closed = 0 /\ ~hist.write_error /\ ~stop_at_size

\* pv_next_file is called once for each file, in list order, and exit_status
\* only gains bits.
NextFileCalledInOrder ==
    /\ [](RunCompleted => hist.next_file_calls = FileNumbers)
    /\ [][exit_status \subseteq exit_status']_vars

\* C21: when the run is over, every input file of the list has been attempted
\* (its open() reached) exactly once and in list order, and exit_status bits
\* are only ever added, never cleared.
C21_EveryFileAttempted ==
    /\ [](RunCompleted => hist.open_calls = FileNumbers)
    /\ [][exit_status \subseteq exit_status']_vars

\* The second of two files was passed to pv_next_file, which returned before
\* open() because the first file's descriptor could not be closed.
C21_SkippedUnopened ==
    /\ RunCompleted /\ file_count = 2
    /\ hist.next_file_calls = <<0, 1>> /\ hist.open_calls = <<0>>
    /\ exit_status = {PV_ERROREXIT_CLOSE}

(***************************************************************************)
(* Properties of the compiled format.                                      *)
(***************************************************************************)

\* The segment plan and the flags of a display: the segment count, each
\* segment's type, chosen size, offset, byte count and width, and
\* showing_timer.
SegmentPlan(d) ==
    [format_segment_count |-> d.format_segment_count, format |-> d.format,
     showing_timer |-> d.showing_timer]

\* The display's format was compiled from the format string now in force.
CompiledFromSame == hist.calls > 0 /\ hist.compiled = format_string

\* C22: at a display tick whose format string is the one compiled before,
\* the frame has the same segment plan and the same showing_timer whether the
\* tick recompiles the format (reparse_display was set, once or several
\* times) or not, and after every display tick reparse_display is 0.
C22_RecompileSamePlan ==
    [][DisplayStep =>
         /\ reparse_display' = 0
         /\ CompiledFromSame =>
              /\ SegmentPlan(display')
                    = SegmentPlan(pv_format(display, format_string, width', TRUE,
                                            FrameShown))
              /\ SegmentPlan(display')
                    = SegmentPlan(pv_format(display, format_string, width', FALSE,
                                            FrameShown))]_vars

\* A tick recompiled a format with a timer from the string it had been
\* compiled from, after reparse_display had been set twice since the frame
\* before.
C22_Witness ==
    /\ hist.recompiled >= 2 /\ hist.compiled = format_string
    /\ reparse_display = 0
    /\ display.showing_timer /\ display.format_segment_count > 1

(***************************************************************************)
(* Properties of the resize.                                               *)
(***************************************************************************)

\* When the flag is clear and the loop is not between the clearing of the
\* flag and the store of the new width, the width in use is the terminal's:
\* no resize is lost.
NoResizeLost ==
    (~width_set_manually /\ terminal_resized = 0 /\ pc \in {"resized", "display"})
        => width = terminal_width

\* The frame of a tick that tested the flag after the last SIGWINCH is laid
\* out for the terminal's width.
FrameOfNextTick ==
    [][(DisplayStep /\ ~width_set_manually /\ hist.tested_since_winch)
          => width = terminal_width]_vars

\* C23: when a SIGWINCH has arrived and the width was not set manually, the
\* first frame rendered afterwards is laid out for the terminal width read
\* after the signal, the line being at most as wide as the new width; and
\* no resize is lost, whatever the interleaving of the signal with the test
\* and the clearing of terminal_resized.
C23_FrameAfterWinch ==
    /\ [][(DisplayStep /\ hist.winch_since_frame /\ ~width_set_manually)
            => /\ ~hist.width_stale
               /\ width = terminal_width
               /\ display'.display_string_width <= terminal_width]_vars
    /\ []NoResizeLost

\* A frame was laid out for the old width after the SIGWINCH: the signal
\* came between the test of the flag and pv_display.
C23_StaleFrame ==
    /\ pc = "resized" /\ hist.calls > 0 /\ ~width_set_manually
    /\ terminal_resized = 1 /\ width # terminal_width
    /\ display.prev_screen_width = width

(***************************************************************************)
(* Properties of the EOF flags.                                            *)
(***************************************************************************)

\* The step is one of pv_transfer.
TransferStep == pc \in {"grow", "read", "write", "collapse"}

\* C24: a step of the transfer engine sets eof_out only when eof_in is set
\* and the buffer is empty, or when the output pipe has been closed; and,
\* without a closed pipe, a write error or stop_at_size, whenever both EOF
\* flags are set no byte that was read is still unwritten.
C24_EofOutWhenDrained ==
    /\ [][(TransferStep /\ ~eof_out /\ eof_out')
            => \/ eof_in' /\ read_position' = write_position'
               \/ pipe_closed' = 1]_vars
    /\ []((eof_in /\ eof_out /\ pipe_closed = 0 /\ ~hist.write_error /\ ~stop_at_size)
            => /\ read_position = write_position
               /\ transfer_buffer = <<>>)

\* A file of two bytes went through a one-byte buffer under a rate limit and
\* both EOF flags are set, with no closed pipe, write error or stop_at_size.
C24_Witness ==
    /\ pc = "advance" /\ eof_in /\ eof_out
    /\ pipe_closed = 0 /\ ~hist.write_error /\ ~stop_at_size
    /\ rate_limit > 0 /\ buffer_size = 1
    /\ input_fd > 0 /\ files[input_fd] = 2 /\ in_pos = 2
    /\ Len(output) >= 2

(***************************************************************************)
(* Properties of splice.                                                   *)
(***************************************************************************)

\* The step attempts splice: it succeeds and sets splice_used, or it fails
\* and the descriptor is remembered in splice_failed_fd.
SpliceAttempt ==
    /\ pc = "read"
    /\ (splice_used' /\ ~splice_used) \/ splice_failed_fd' # splice_failed_fd

SkipReadStep == pc = "skipread" /\ pc' = "skipread" /\ input_fd' = input_fd
SkipFailStep == SkipReadStep /\ hist'.streak = hist.streak + 1

\* C26: with skip_errors > 0 and error_skip_block = 0 the skip after a
\* failed read is 1 byte for the first failure on a descriptor or after a
\* successful read, and doubles with each further failure in a row up to
\* 1 MiB; read_errors_in_a_row and read_error_warning_shown start afresh
\* when the active descriptor is not last_read_skip_fd, so the count follows
\* each file's own failures and the warning is logged at most once for
\* each descriptor.
C26_AdaptiveSkip ==
    /\ [][(SkipFailStep /\ hist'.skipped /\ error_skip_block = 0)
            => /\ hist'.last_skip = Min(Pow2(hist'.streak - 1), SKIP_BLOCK_MAX)
               /\ in_pos' = in_pos + hist'.last_skip]_vars
    /\ [][SkipReadStep
            => /\ read_errors_in_a_row' = hist'.streak
               /\ last_read_skip_fd' = input_fd
               /\ (input_fd # last_read_skip_fd /\ SkipFailStep)
                     => /\ read_errors_in_a_row' = 1
                        /\ hist'.warned = Append(hist.warned, input_fd)]_vars
    /\ [](\A i, j \in DOMAIN hist.warned : i # j => hist.warned[i] # hist.warned[j])
    /\ [](read_error_warning_shown => last_read_skip_fd \in {hist.warned[i] : i \in DOMAIN hist.warned})

\* On the second file, after a warning for each file and a successful read,
\* the skip has reached 1 MiB.
C26_Witness ==
    /\ pc = "skipread" /\ input_fd = 2 /\ error_skip_block = 0
    /\ hist.warned = <<1, 2>> /\ hist.oks > 0
    /\ hist.skipped /\ hist.last_skip = SKIP_BLOCK_MAX
    /\ read_errors_in_a_row = MaxErrors

(***************************************************************************)
(* Properties of the average-rate history.                                 *)
(***************************************************************************)

\* The step in which pv_calculate_transfer_rate is called.
CalcStep == hist'.calls # hist.calls

\* The number of entries the ring of c holds, from history_first round to
\* history_last.
RingEntries(c) == ((c.history_last - c.history_first) % c.history_len) + 1

\* The slot after slot i of the ring of c.
RingNext(c, i) == (i + 1) % c.history_len

\* The slots of the ring of c that hold its entries.
RECURSIVE RingSlotsFrom(_, _)
RingSlotsFrom(c, i) ==
    IF i = c.history_last THEN {i} ELSE {i} \cup RingSlotsFrom(c, RingNext(c, i))
RingSlots(c) == RingSlotsFrom(c, c.history_first)

\* The step wrote an entry into the ring.
HistoryWritten ==
    CalcStep /\ (calc'.history # calc.history \/ calc'.history_last # calc.history_last)

\* C27: after every call the ring holds between 1 and history_len entries
\* and the indexes are within the ring; history_first = history_last exactly
\* when it holds one entry; a call leaves the ring as it is, writes its only
\* entry, adds an entry after the newest while the ring is not full, or, when
\* the ring is full, adds it in place of the oldest, history_first moving on
\* by one modulo history_len.
C27_HistoryRing ==
    /\ [](hist.calls > 0 =>
            /\ calc.history_first \in 0..(calc.history_len - 1)
            /\ calc.history_last \in 0..(calc.history_len - 1)
            /\ RingEntries(calc) \in 1..calc.history_len
            /\ Cardinality(RingSlots(calc)) = RingEntries(calc)
            /\ (calc.history_first = calc.history_last) <=> (RingEntries(calc) = 1)
            /\ RingEntries(calc) > 1 =>
                  \A i \in RingSlots(calc) : calc.history[i].elapsed_sec > 0)
    /\ [][CalcStep =>
            \/ /\ calc'.history = calc.history
               /\ calc'.history_first = calc.history_first
               /\ calc'.history_last = calc.history_last
            \/ /\ RingEntries(calc) = 1 /\ RingEntries(calc') = 1
               /\ calc.history[calc.history_last].elapsed_sec <= 0
               /\ calc'.history_first = calc.history_first
               /\ calc'.history_last = calc.history_last
            \/ /\ RingEntries(calc) < calc.history_len
               /\ calc'.history_last = RingNext(calc, calc.history_last)
               /\ calc'.history_first = calc.history_first
               /\ RingEntries(calc') = RingEntries(calc) + 1
            \/ /\ RingEntries(calc) = calc.history_len
               /\ calc'.history_last = calc.history_first
               /\ calc'.history_first = RingNext(calc, calc.history_first)
               /\ RingEntries(calc') = calc.history_len]_vars

\* A ring of two entries is full and has evicted its oldest entry: the
\* newest entry is in slot 0, where the first one was.
C27_Witness ==
    /\ calc.history_len = 2 /\ RingEntries(calc) = 2
    /\ calc.history_first = 1 /\ calc.history_last = 0
    /\ calc.history[0].elapsed_sec > calc.history[1].elapsed_sec

\* C28: whenever the ring holds more than one entry, each entry is at least
\* history_interval later than the one before it, so the newest is later
\* than the oldest; a call that writes an entry sets current_avg_rate to
\* the difference of the totals of the newest and the oldest entry divided
\* by the (positive) difference of their times, or, when the entry is the
\* only one, to the rate of the call.
C28_AverageOverPositiveTime ==
    /\ [](RingEntries(calc) > 1 =>
            /\ \A i \in RingSlots(calc) \ {calc.history_last} :
                  calc.history[RingNext(calc, i)].elapsed_sec
                      >= calc.history[i].elapsed_sec + history_interval
            /\ calc.history[calc.history_last].elapsed_sec
                  > calc.history[calc.history_first].elapsed_sec)
    /\ [][HistoryWritten =>
            calc'.current_avg_rate =
                IF calc'.history_first = calc'.history_last THEN calc'.prev_rate
                ELSE Rate(calc'.history[calc'.history_last].total_written
                              - calc'.history[calc'.history_first].total_written,
                          calc'.history[calc'.history_last].elapsed_sec
                              - calc'.history[calc'.history_first].elapsed_sec)]_vars

\* The ring holds two entries a second apart and the average rate is that of
\* the bytes written in between, which differs from the rate of the call.
C28_Witness ==
    /\ RingEntries(calc) = 2 /\ hist.calls > 2
    /\ calc.history[calc.history_last].elapsed_sec
          = calc.history[calc.history_first].elapsed_sec + history_interval
    /\ calc.current_avg_rate > 0
    /\ calc.current_avg_rate # calc.prev_rate

(***************************************************************************)
(* Properties of the rate measurement.                                     *)
(***************************************************************************)

\* The fields a measurement changes.
Measurement(c) ==
    <<c.rate_min, c.rate_max, c.rate_sum, c.ratesquared_sum, c.measurements_taken,
      c.prev_elapsed_sec>>

\* C29: after every call prev_total_written is total_written and prev_trans
\* is the amount transferred since the last call whose time step (the time
\* since the measurement before it) exceeded 0.01 s, 0 right after such a
\* call; a call with a time step of at most 0.01 s keeps the previous rate
\* and leaves the measurements alone, and a call with a longer one takes one
\* measurement, of the whole amount transferred since the measurement before
\* it divided by the time step.
C29_NothingLostOrCountedTwice ==
    /\ [](hist.calls > 0 =>
            /\ calc.prev_total_written = total_written
            /\ calc.prev_trans = hist.carried
            /\ calc.prev_elapsed_sec = hist.measured_at)
    /\ [][CalcStep =>
            IF hist'.call_at - hist.measured_at <= USEC_PER_SEC \div 100
            THEN /\ calc'.prev_rate = calc.prev_rate
                 /\ Measurement(calc') = Measurement(calc)
                 /\ calc'.prev_trans = calc.prev_trans + (total_written' - total_written)
            ELSE /\ calc'.prev_rate =
                        Rate(hist.carried + (total_written' - total_written),
                             hist'.call_at - hist.measured_at)
                 /\ calc'.measurements_taken = calc.measurements_taken + 1
                 /\ calc'.prev_trans = 0]_vars

\* Bytes arrived in two calls at most 0.01 s after a measurement and are
\* carried; no measurement has been taken since.
C29_Witness ==
    /\ hist.calls = 3 /\ calc.measurements_taken = 1
    /\ hist.call_at = hist.measured_at + USEC_PER_SEC \div 100
    /\ calc.prev_trans = 2 /\ total_written = 2

(***************************************************************************)
(* Properties of the percentage of a transfer of unknown size.             *)
(***************************************************************************)

\* The step in which the long transfer of unknown size calls
\* pv_calculate_transfer_rate.
SweepStep == pc = "sweep" /\ hist'.calls # hist.calls

\* C30: with the size unknown (size <= 0), after every call of
\* pv_calculate_transfer_rate the percentage is an even value in 0..198; a
\* call with a positive rate moves it on by 2, from 198 to 0 and never to
\* 200, any other call leaves it; the place of the indicator derived from it
\* is the percentage up to 100 and 200 less the percentage above, and is
\* within 0..100.
C30_UnknownSizeSweep ==
    /\ [](size <= 0 =>
            /\ calc.percentage \in 0..198
            /\ calc.percentage % 2 = 0
            /\ IndicatorPosition(calc.percentage) \in 0..100
            /\ IndicatorPosition(calc.percentage) =
                  IF calc.percentage > 100 THEN 200 - calc.percentage
                  ELSE calc.percentage)
    /\ [][SweepStep =>
            calc'.percentage =
                IF calc'.transfer_rate > 0
                THEN (IF calc.percentage = 198 THEN 0 ELSE calc.percentage + 2)
                ELSE calc.percentage]_vars

\* The hundredth call with a positive rate has brought the percentage from
\* 198 back to 0.
C30_Witness ==
    /\ size <= 0 /\ hist.calls = 100 /\ total_written = 100
    /\ calc.transfer_rate > 0
    /\ calc.percentage = 0

(***************************************************************************)
(* Properties of wait mode.                                                *)
(***************************************************************************)

\* The positions between pv_sig_nopause and pv_sig_allowpause.
Detached == pc \in {"wstart", "wzero"}

\* C31: with -W no frame is rendered while wait is set nor before a tick
\* has written something; the tick that writes the first byte (line, in line
\* mode) clears wait; between pv_sig_nopause and pv_sig_allowpause neither
\* handler is installed, tstp_time does not change and toffset changes only
\* by being zeroed after start_time was set to the clock; that tick leaves
\* next_update one interval after the new start_time and renders no frame.
C31_WaitClearedAtFirstWrite ==
    /\ [](/\ hist.frames > 0 => (~wait /\ hist.wrote)
          /\ (wait /\ hist.wrote) => pc = "wgate"
          /\ Detached => (~tstp_caught /\ ~cont_caught)
          /\ ~hist.frame_while_clearing)
    /\ [][/\ (pc = "wgate" /\ wait /\ ~wait') =>
                 (IF linemode THEN lineswritten >= 1 ELSE written >= 1)
          /\ Detached =>
                 /\ tstp_time' = tstp_time
                 /\ toffset' = toffset \/ (pc = "wzero" /\ toffset' = ZeroTime)
          /\ (pc = "wstart" /\ pc' = "wzero") => start_time' = clock
          /\ (pc = "wzero" /\ pc' = "wallow") => toffset' = ZeroTime
          /\ (pc = "wnext" /\ pc' = "wdue") =>
                 /\ next_update' = pv_elapsedtime_add_nsec(start_time, IntervalNsec)
                 /\ TimeBefore(loop_cur_time, next_update')]_vars

\* The process was stopped and continued while it waited, so toffset was not
\* zero; SIGTSTP arrived while it was ignored; wait is over, toffset is zero
\* and the first frame was rendered a second after the new start time.
C31_Witness ==
    /\ ~wait /\ hist.frames = 1 /\ hist.stops = 2 /\ hist.conts >= 1
    /\ \E t \in hist.toffsets : t # ZeroTime
    /\ toffset = ZeroTime
    /\ start_time # BootTime
    /\ hist.first_frame_at = pv_elapsedtime_add_nsec(start_time, IntervalNsec)

(***************************************************************************)
(* Properties of standard error in the background.                         *)
(***************************************************************************)

\* File descriptor 2 refers to the terminal, or the saved descriptor does
\* and is open.
StderrKept ==
    \/ fdtab[STDERR_FILENO] = "tty"
    \/ old_stderr # -1 /\ fdtab[old_stderr] = "tty"

\* C32 as stated: under every interleaving of the handlers of SIGTTOU and
\* SIGCONT with pv_sig_checkbg the terminal is never lost (file descriptor 2
\* or the saved descriptor refers to it), SIGTTOU never overwrites a saved
\* descriptor, and no descriptor is closed twice.
C32_StderrNeverLost ==
    [](StderrKept /\ ~hist.resaved /\ ~hist.closed_twice)

\* The terminal is lost: neither file descriptor 2 nor any other descriptor
\* refers to it, and nothing is running that could bring it back.
C32_TerminalLost ==
    /\ pc = "bgidle" /\ sigstack = <<>>
    /\ \A fd \in Descriptors : fdtab[fd] # "tty"

\* While no signal arrives during pv_sig_checkbg or during a handler, the
\* terminal is kept, and no saved descriptor is overwritten or closed twice
\* in any case but an interrupted one.
StderrKeptUninterrupted ==
    [](~hist.interrupted => (StderrKept /\ ~hist.closed_twice)) /\ [](~hist.resaved)

\* Both handlers and pv_sig_checkbg have run undisturbed: stderr was saved,
\* replaced and restored.
StderrRestored ==
    /\ ~hist.interrupted /\ hist.delivered["ttou"] = 2 /\ hist.delivered["cont"] = 1
    /\ hist.checks = 2 /\ pc = "bgidle" /\ sigstack = <<>>
    /\ old_stderr = -1 /\ fdtab[STDERR_FILENO] = "tty"

(***************************************************************************)
(* C33                                                                     *)
(***************************************************************************)

\* The static segment written by pass k of the parser holds the bytes of
\* the format string from where the pass started to where the next pass
\* starts, or the one byte "%" of a doubled percent sign.
SegmentVerbatim(k) ==
    LET s == display.format[k]
        pass == hist.passes[k]
    IN  s.type = -1 =>
            /\ s.offset = pass.from
            /\ \/ pass.next = s.offset + s.bytes
               \/ /\ s.bytes = 1
                  /\ CharAt(format_string, s.offset) = "%"
                  /\ CharAt(format_string, s.offset + 1) = "%"
                  /\ pass.next = s.offset + 2

\* The segment written by pass k lies within the format string, before its
\* terminator.
SegmentInString(k) ==
    LET s == display.format[k]
    IN  s.type = -1 => s.offset + s.bytes <= Len(format_string)

\* C33: for every format string, each sequence that is not recognised
\* becomes a static segment of exactly its bytes and "%%" a static segment
\* of the one byte "%"; the parser reads no byte behind the terminator of
\* the string, and no segment holds the terminator or a byte behind it.
C33_ParserStaysInString ==
    /\ hist.read_upto <= Len(format_string)
    /\ \A k \in 1..Len(display.format) : SegmentVerbatim(k) /\ SegmentInString(k)

\* The parser has read behind the terminator of a format string that ends
\* in a lone percent sign.
C33_ReadBehindTerminator ==
    /\ pc = "fparsed"
    /\ format_string = <<"%">>
    /\ hist.read_upto > Len(format_string)

\* A brace sequence that is not closed has become a segment that holds the
\* terminator.
C33_TerminatorInSegment ==
    /\ pc = "fparsed"
    /\ format_string = <<"%", "{", "q">>
    /\ display.format[1].bytes = Len(format_string) + 1

\* A format string ends inside a sequence: in a lone percent sign or in a
\* brace sequence that is not closed.
RECURSIVE EndsInsideFrom(_, _)
EndsInsideFrom(str, strpos) ==
    IF CharAt(str, strpos) = NUL THEN FALSE
    ELSE LET step == FormatInitStep(str, strpos)
         IN  step.next > Len(str) \/ EndsInsideFrom(str, step.next)

EndsInside(str) == EndsInsideFrom(str, 0)

\* For the format strings that do not end inside a sequence the parser
\* stays within the string and its static segments are verbatim.
ParserStaysInClosedFormats ==
    ~EndsInside(format_string) => C33_ParserStaysInString

\* A doubled percent sign and a sequence with a number and an unknown
\* letter have been parsed within the string.
ClosedFormatParsed ==
    /\ pc = "fparsed"
    /\ format_string = <<"%", "5", "q">>
    /\ display.format = <<[type |-> -1, chosen_size |-> 0, offset |-> 0,
                           bytes |-> 3, width |-> 3]>>

(***************************************************************************)
(* C34                                                                     *)
(***************************************************************************)

\* Whether segment i of the rendered format is a dynamic one: a component
\* rendered in the second pass of pv_format.
IsDynamicSegment(i) ==
    display.format[i].type # -1 /\ ~FixedWidth(display.format[i])

DynamicSegments == {i \in 1..Len(display.format) : IsDynamicSegment(i)}

\* The total width of the static text and of the fixed-width components of
\* the frame.
RECURSIVE StaticPortionFrom(_)
StaticPortionFrom(i) ==
    IF i > Len(display.format) THEN 0
    ELSE (IF IsDynamicSegment(i) THEN 0 ELSE display.format[i].width)
         + StaticPortionFrom(i + 1)

StaticPortionWidth == StaticPortionFrom(1)

\* C34: after every pv_format call with k >= 1 dynamic segments, each was
\* rendered with the width floor((control.width - static_portion_width) / k),
\* and this width is never larger than control.width, also when the static
\* portion is wider than the terminal.
C34_DynamicWidthShared ==
    hist.calls > 0 =>
        \A i \in DynamicSegments :
            /\ display.format[i].width =
                   (width - StaticPortionWidth) \div Cardinality(DynamicSegments)
            /\ display.format[i].width <= width

\* A frame with a dynamic segment whose static portion is wider than the
\* terminal: the segment's width is far beyond the terminal's.
C34_WidthWrapped ==
    /\ hist.calls > 0
    /\ StaticPortionWidth > width
    /\ \E i \in DynamicSegments : display.format[i].width > width

\* Whenever the static portion fits in the terminal, each dynamic segment
\* has its share of the rest.
DynamicWidthWhenStaticFits ==
    (hist.calls > 0 /\ StaticPortionWidth <= width) =>
        \A i \in DynamicSegments :
            /\ display.format[i].width =
                   (width - StaticPortionWidth) \div Cardinality(DynamicSegments)
            /\ display.format[i].width <= width

\* Two bars have shared what the static text left over.
TwoBarsShared ==
    /\ hist.calls > 0
    /\ Cardinality(DynamicSegments) = 2
    /\ StaticPortionWidth = 1
    /\ width = 20
    /\ \A i \in DynamicSegments : display.format[i].width = 9

(***************************************************************************)
(* C35                                                                     *)
(***************************************************************************)

\* After the call c of the last frame the segment's bytes field is what the
\* call returned and its offset is the offset passed in.
SegmentFollowsCall(c) ==
    /\ display.format[c.idx].bytes = c.returned
    /\ display.format[c.idx].offset = c.offset

\* What the concatenation pass copies for segment i of a component was
\* written by its function in the last frame.
CopiedFresh(i) ==
    (display.format[i].type # -1 /\ display.format[i].bytes > 0) =>
        \E k \in 1..Len(hist.format_calls) :
            /\ hist.format_calls[k].idx = i
            /\ hist.format_calls[k].returned = display.format[i].bytes
            /\ hist.format_calls[k].offset = display.format[i].offset

\* C35: after every call of a component's function with a buffer, the
\* segment's bytes field is the value the call returned and its offset is
\* the offset passed in, also when the call returned 0 because the content
\* does not fit or the component does not apply, so the concatenation pass
\* of pv_format never copies content left over from an earlier tick.
C35_SegmentsFollowCalls ==
    hist.calls > 0 =>
        /\ \A k \in 1..Len(hist.format_calls) : SegmentFollowsCall(hist.format_calls[k])
        /\ \A i \in 1..Len(display.format) : CopiedFresh(i)

\* The second frame, on a terminal that has no room for the previous line,
\* shows bytes of the stack that the frame did not write.
C35_StaleCopied ==
    /\ hist.calls = 2
    /\ width = 8
    /\ \E k \in 1..Len(hist.format_calls) :
          /\ hist.format_calls[k].returned = 0
          /\ display.format[hist.format_calls[k].idx].bytes = 12
    /\ \E i \in 1..Len(display.display_buffer) : display.display_buffer[i] = hist.stack_byte

\* The functions that go through pv__format_segmentcontent leave the
\* segment as the call says: the timer's segment follows its call in every
\* frame.
TimerSegmentFollowsCall ==
    hist.calls > 0 =>
        \A k \in 1..Len(hist.format_calls) :
            format_component[display.format[hist.format_calls[k].idx].type].function = "timer"
                => SegmentFollowsCall(hist.format_calls[k])

\* A frame with the timer and the previous line, each segment as its call
\* left it.
LineFrameFollowsCalls ==
    /\ hist.calls > 0
    /\ Len(hist.format_calls) = 2
    /\ \A k \in 1..Len(hist.format_calls) :
          /\ hist.format_calls[k].returned > 0
          /\ SegmentFollowsCall(hist.format_calls[k])

(***************************************************************************)
(* C36                                                                     *)
(***************************************************************************)

\* C36: in pv_watchfd_loop, in the first tick in which the position of the
\* watched descriptor can no longer be read, exactly one more frame is
\* rendered, as the final update and with the last position that was read,
\* and the loop ends; initial_offset is set exactly once, from the first
\* position read.
C36_OneFinalFrame ==
    /\ [](/\ hist.fd_failed <= 1
          /\ ended <=> hist.fd_failed = 1
          /\ hist.fd_final_frames = hist.fd_failed
          /\ ended =>
                /\ hist.fd_last_frame = [final |-> TRUE,
                                         transferred |-> hist.fd_last_read]
                /\ transferred = hist.fd_last_read
                /\ pc \in {"fdwatch", "done"}
          /\ hist.fd_offset_sets = (IF hist.fd_reads > 0 THEN 1 ELSE 0)
          /\ hist.fd_reads > 0 => initial_offset = hist.fd_first_read)
    /\ [][ended => (hist'.fd_frames = hist.fd_frames /\ hist'.fd_failed = hist.fd_failed
                    /\ initial_offset' = initial_offset
                    /\ (pc' # pc => pc' = "done"))]_vars

\* The descriptor was closed after positions had been read and frames
\* rendered, before the next update was due: the loop has ended with one
\* final frame that shows the last position, which is not the first.
C36_Witness ==
    /\ pc = "done" /\ ended
    /\ hist.fd_reads >= 2
    /\ hist.fd_frames >= 2
    /\ hist.fd_final_frames = 1
    /\ hist.fd_last_read # hist.fd_first_read
    /\ initial_offset = hist.fd_first_read
    /\ TimeBefore(loop_cur_time, pv_elapsedtime_add_nsec(start_time, 2 * IntervalNsec))
    /\ loop_cur_time.tv_nsec # 0

(***************************************************************************)
(* C37.  The lines of a tick of pv_watchpid_loop and where the cursor is   *)
(* left.                                                                   *)
(***************************************************************************)

\* The lines in what was written: frames, numeric lines and blank lines.
LinesWritten(out) ==
    Pieces(out, "frame") + Pieces(out, "number") + Pieces(out, "blank")

\* A tick has displayed, or the clean-up has run: hist.pid_out is what it wrote.
PidWrote == hist.pid_ticks > 0 \/ hist.pid_cleaned

\* C37: in each tick of pv_watchpid_loop the number of lines written is the
\* larger of the lines of the descriptors displayed in this tick and the
\* lines of the previous tick; the cursor-up sequences written are as many
\* as the newlines written, and the cursor is on the first display line
\* after every tick and after the clean-up on exit.
C37_CursorBackOnFirstLine ==
    PidWrote =>
        /\ ~hist.pid_cleaned =>
               LinesWritten(hist.pid_out) =
                   (IF hist.pid_shown > hist.pid_previous
                    THEN hist.pid_shown ELSE hist.pid_previous)
        /\ Pieces(hist.pid_out, "up") = Pieces(hist.pid_out, "\n")
        /\ cursor_line = 0

\* C37, numeric mode: a tick has written two numeric lines and left the
\* cursor below the first line.
C37_NumericLeftBelow ==
    /\ numeric /\ hist.pid_ticks > 0 /\ ~hist.pid_cleaned
    /\ hist.pid_shown = 2
    /\ Pieces(hist.pid_out, "\n") = 3 /\ Pieces(hist.pid_out, "up") = 1
    /\ cursor_line = 2

\* C37 without numeric mode: the lines are the larger of the two counts,
\* cursor-ups and newlines are one fewer than the lines (none when there is
\* no line), and the cursor is back on the first line; the clean-up writes
\* as many blank lines as the last tick had lines.
LinesAndCursorWithoutNumeric ==
    (PidWrote /\ ~numeric) =>
        /\ LinesWritten(hist.pid_out) =
               (IF hist.pid_cleaned THEN hist.pid_previous
                ELSE IF hist.pid_shown > hist.pid_previous
                THEN hist.pid_shown ELSE hist.pid_previous)
        /\ Pieces(hist.pid_out, "up") = Pieces(hist.pid_out, "\n")
        /\ Pieces(hist.pid_out, "up") =
               (IF LinesWritten(hist.pid_out) > 0
                THEN LinesWritten(hist.pid_out) - 1 ELSE 0)
        /\ cursor_line = 0

\* A tick that shows fewer descriptors than the tick before it has padded
\* with blank lines, without numeric mode.
PaddedWithBlankLines ==
    /\ ~numeric /\ hist.pid_ticks > 1 /\ ~hist.pid_cleaned
    /\ hist.pid_shown = 1 /\ hist.pid_previous = 3
    /\ Pieces(hist.pid_out, "blank") = 2

(***************************************************************************)
(* C38.  What the loops do with a resize of the terminal when the width or *)
(* the height was given on the command line.                               *)
(***************************************************************************)

\* The step takes in a resize: the flag goes from 1 to 0.
ResizeHandled == terminal_resized = 1 /\ terminal_resized' = 0

\* C38: handling terminal_resized never changes control.width when
\* width_set_manually is true, never changes control.height when
\* height_set_manually is true, and never sets the width above
\* PVDISPLAY_WIDTH_MAX.
C38_ManualSizesKept ==
    [][ResizeHandled =>
           /\ width_set_manually => width' = width
           /\ height_set_manually => height' = height
           /\ width' <= PVDISPLAY_WIDTH_MAX]_vars

\* C38 in pv_watchpid_loop: a width and a height given on the command line
\* have both been replaced by the size of the terminal.
C38_ManualSizesReplaced ==
    /\ width_set_manually /\ height_set_manually
    /\ width # 30 /\ height # 1
    /\ width = ClampWidth(terminal_width) /\ height = terminal_height

\* C38, the part that holds in pv_watchpid_loop: the width is never above
\* PVDISPLAY_WIDTH_MAX, and a resize leaves it at the clamped width of the
\* terminal.
WidthWithinMax ==
    [](width <= PVDISPLAY_WIDTH_MAX)
    /\ [][ResizeHandled => width' = ClampWidth(terminal_width)]_vars

\* A terminal wider than PVDISPLAY_WIDTH_MAX has been taken in.
WideTerminalClamped ==
    /\ terminal_width > PVDISPLAY_WIDTH_MAX /\ width = PVDISPLAY_WIDTH_MAX
    /\ hist.pid_ticks > 0

(***************************************************************************)
(* C39.  What the return value of pv_remote_set says about the message.    *)
(***************************************************************************)

\* The sender's message is in the queue.
OwnMessageQueued(s) == \E i \in 1..Len(msgq.msgs) : msgq.msgs[i].from = s

\* pv_remote_set has returned in sender s: 0 only if the target has taken
\* the message of this call; if the message was sent and not taken, the
\* return value is not 0 and the message is no longer in the queue.
ReturnTellsConsumed(s) ==
    senders[s].pc = "rdone" =>
        /\ senders[s].ret = 0 => senders[s].consumed
        /\ (senders[s].sent /\ ~senders[s].consumed) =>
               (senders[s].ret # 0 /\ ~OwnMessageQueued(s))

\* C39: pv_remote_set returns 0 only if the target process has consumed the
\* message this call sent; otherwise it removes its own message from the
\* queue and returns nonzero, also when several senders use the user's
\* queue at the same time.
C39_ReturnTellsConsumed == \A s \in SenderIds : ReturnTellsConsumed(s)

\* C39 with two senders: a call has returned 0 while its message is still
\* in the queue, the target not having taken it.
C39_ZeroWhileQueued ==
    \E s \in SenderIds :
        /\ senders[s].pc = "rdone" /\ senders[s].ret = 0
        /\ ~senders[s].consumed /\ OwnMessageQueued(s)

\* C39 with two senders for one target: a call has returned 1 after taking
\* the other sender's message from the queue; its own is still there.
C39_OthersMessageRemoved ==
    \E s \in SenderIds : \E o \in SenderIds \ {s} :
        /\ senders[s].pc = "rdone" /\ senders[s].ret = 1 /\ OwnMessageQueued(s)
        /\ senders[o].sent /\ ~senders[o].consumed /\ ~OwnMessageQueued(o)
        /\ msgq.id = 1 /\ msgq.exists

\* C39 for a sender that has the queue to itself: the return value tells
\* whether the message was taken, as the claim says.
LoneSenderReturnTellsConsumed ==
    (\E o \in SenderIds : senders[o].pc = "absent") => C39_ReturnTellsConsumed

\* A lone sender has returned 0 and its message was taken; the other case,
\* a lone sender has given up and taken its message back.
LoneSenderServed ==
    \E s \in SenderIds : \E o \in SenderIds \ {s} :
        /\ senders[o].pc = "absent"
        /\ senders[s].pc = "rdone" /\ senders[s].ret = 0 /\ senders[s].consumed

LoneSenderGaveUp ==
    \E s \in SenderIds : \E o \in SenderIds \ {s} :
        /\ senders[o].pc = "absent"
        /\ senders[s].pc = "rdone" /\ senders[s].ret = 1 /\ senders[s].sent
        /\ ~senders[s].consumed /\ senders[s].timeout <= RemoteWait
        /\ senders[s].remote \in running

(***************************************************************************)
(* C40.  The range of transferred.                                         *)
(***************************************************************************)

\* C40: after every tick of pv_main_loop, in byte mode and in line mode,
\* transferred is at least 0 and at most total_written, for every count of
\* waiting bytes the query on the pipe can report.
C40_TransferredWithinWritten ==
    AfterTick => (0 <= transferred /\ transferred <= total_written)

\* C40 in byte mode on a shared pipe: a tick has written, the pipe holds
\* more bytes than pv has written, and transferred is below 0.
C40_TransferredBelowZero ==
    /\ AfterTick /\ ~linemode /\ total_written > 0
    /\ written_but_not_consumed > total_written
    /\ transferred = total_written - written_but_not_consumed
    /\ transferred < 0

\* C40, the part that holds on any pipe: transferred is never above
\* total_written, and in line mode it is never below 0.
TransferredAtMostWritten ==
    AfterTick => (transferred <= total_written /\ (linemode => 0 <= transferred))

\* In line mode on a shared pipe every line written counts as not consumed.
NoLineConsumedYet ==
    /\ AfterTick /\ linemode /\ total_written > 0
    /\ written_but_not_consumed > last_output_position
    /\ transferred = 0

====
